---- MODULE Spec2Model ----
(***************************************************************************)
(* The local backend of claude-supermemory (local-backend/server.js, the   *)
(* JSON-file variant) and the plugin's client factory, as a state machine. *)
(* Strings are JavaScript strings; a snapshot file is the sequence of      *)
(* lines JSON.stringify(db, null, 2) writes.                               *)
(***************************************************************************)
EXTENDS Integers, Sequences, FiniteSets, TLC

VARIABLES
    running,     \* the server process is up (main() has run, no crash/exit since)
    authToken,   \* server.js `let authToken`
    tokenFile,   \* ~/.supermemory-local/auth.token
    db,          \* the in-memory store loadDb() returned, mutated by the handlers
    file,        \* ~/.supermemory-local/memories.json
    uuids,       \* how many ids crypto.randomUUID() has handed out so far
    resp,        \* the last request and the response the server gave it
    prevAdd,     \* the id/tag/content of the request just before, if a successful add
    deletedOk,   \* ids for which DELETE /memories/:id has answered {status:"ok"}
    flushing,    \* the snapshot pair of a flush the process died in, if any
    env,         \* the plugin's process.env (SUPERMEMORY_API_URL, SUPERMEMORY_LOCAL)
    client,      \* the client createClient() returned, if any
    sent,        \* the last request the client handed to fetch()
    pending,     \* the requests whose body parseBody is reading, in order of arrival
    microtasks,  \* the continuations of settled parseBody promises, not yet run
    serial,      \* the store, file and id count had each request been handled
                 \* whole at the moment its body was complete
    limiter,     \* the client's RateLimiter, with the clock it reads
    hook,        \* a session's transcript file and the capture tracker of the hooks
    flow         \* the credentials file and the browser authentication flow

vars == <<running, authToken, tokenFile, db, file, uuids, resp, prevAdd,
          deletedOk, flushing, env, client, sent, pending, microtasks, serial,
          limiter, hook, flow>>

loopVars == <<pending, microtasks, serial>>

serverVars == <<running, authToken, tokenFile, db, file, uuids, resp, prevAdd,
                deletedOk, flushing, loopVars>>

pluginVars == <<limiter, hook, flow>>

clientVars == <<env, client, sent, pluginVars>>

(***************************************************************************)
(* Bounds of the model.                                                    *)
(***************************************************************************)
\* records the store holds and ids crypto.randomUUID() hands out in one
\* behaviour: no add is sent beyond either
MaxRecords == 2

\* records of the one large store searches are also run on: more than the
\* ceiling of 50 results, by two
ManyRecords == 52

(***************************************************************************)
(* Values of JavaScript.                                                   *)
(***************************************************************************)
\* undefined / a field absent from a JSON body; Some(v) is a present value
None == <<>>

Some(v) == <<v>>

Min(a, b) == IF a <= b THEN a ELSE b

Max(a, b) == IF a >= b THEN a ELSE b

\* the i-th character of s, as a one-character string
CharAt(s, i) == SubSeq(s, i, i)

\* String.prototype.includes
Includes(s, needle) ==
    \E i \in 1..(Len(s) - Len(needle) + 1) :
        SubSeq(s, i, i + Len(needle) - 1) = needle

\* String.prototype.indexOf from position `from` (1-based; 0 when not found)
RECURSIVE IndexFrom(_, _, _)
IndexFrom(s, needle, from) ==
    IF from + Len(needle) - 1 > Len(s) THEN 0
    ELSE IF SubSeq(s, from, from + Len(needle) - 1) = needle THEN from
    ELSE IndexFrom(s, needle, from + 1)

UpperCaseLetters == "ABCDEFGHIJKLMNOPQRSTUVWXYZ"

LowerCaseLetters == "abcdefghijklmnopqrstuvwxyz"

Digits == "0123456789"

CharsOf(s) == {CharAt(s, i) : i \in 1..Len(s)}

UpperCaseSet == CharsOf(UpperCaseLetters)

\* the characters \w matches
WordChars == CharsOf(UpperCaseLetters) \cup CharsOf(LowerCaseLetters)
                 \cup CharsOf(Digits) \cup {"_"}

\* the other ASCII characters used in the model's strings
AsciiPunctuation == CharsOf(" -./:,!?@#=\n\t\r")

\* String.prototype.toLowerCase
RECURSIVE toLowerCase(_)
toLowerCase(s) ==
    IF s = "" THEN ""
    ELSE LET c == CharAt(s, 1)
         IN  (IF c \in UpperCaseSet
                THEN CharAt(LowerCaseLetters, IndexFrom(UpperCaseLetters, c, 1))
                ELSE c)
             \o toLowerCase(SubSeq(s, 2, Len(s)))

\* String.prototype.split(sep) for a one-character separator: the pieces
\* between one occurrence of sep (or the start) and the next (or the end)
Split(s, sep) ==
    LET at == {i \in 1..Len(s) : CharAt(s, i) = sep}
        cut(k) == IF k = 0 THEN 0
                  ELSE IF k > Cardinality(at) THEN Len(s) + 1
                  ELSE CHOOSE p \in at : Cardinality({q \in at : q < p}) = k - 1
    IN  [k \in 1..(Cardinality(at) + 1) |-> SubSeq(s, cut(k - 1) + 1, cut(k) - 1)]

\* the regular expression classes \w and \s
IsWordChar(c) == c \in WordChars

IsSpaceChar(c) == c \in {" ", "\t", "\n", "\r"}

\* Buffer.from(s).length: the UTF-8 length (the characters used here that are
\* not ASCII are in U+0080..U+07FF, two bytes each)
ByteLength(s) ==
    Len(s) + Cardinality({i \in 1..Len(s) :
                             CharAt(s, i) \notin WordChars \cup AsciiPunctuation})

(***************************************************************************)
(* new URL(s): the protocol and the hostname of an absolute URL.  The      *)
(* parse fails (the constructor throws) when there is no scheme, or when   *)
(* an http(s) URL has no host.                                             *)
(***************************************************************************)
\* the end (exclusive) of the authority that starts at position `from`
RECURSIVE AuthorityEnd(_, _)
AuthorityEnd(s, from) ==
    IF from > Len(s) \/ CharAt(s, from) \in {"/", "?", "#"} THEN from
    ELSE AuthorityEnd(s, from + 1)

\* the last "@" of the authority (userinfo ends there), 0 when there is none
RECURSIVE LastAt(_, _)
LastAt(a, i) ==
    IF i = 0 THEN 0 ELSE IF CharAt(a, i) = "@" THEN i ELSE LastAt(a, i - 1)

ParseUrl(s) ==
    LET colon == IndexFrom(s, "://", 1)
        scheme == toLowerCase(SubSeq(s, 1, colon - 1))
        schemeOk == /\ colon > 1
                    /\ \A i \in 1..(colon - 1) :
                           IndexFrom(LowerCaseLetters, CharAt(scheme, i), 1) > 0
        stop == AuthorityEnd(s, colon + 3)
        authority == SubSeq(s, colon + 3, stop - 1)
        hostport == SubSeq(authority, LastAt(authority, Len(authority)) + 1,
                           Len(authority))
        portAt == IndexFrom(hostport, ":", 1)
        host == toLowerCase(IF portAt > 0 THEN SubSeq(hostport, 1, portAt - 1)
                            ELSE hostport)
    IN  IF ~schemeOk \/ host = ""
        THEN [ok |-> FALSE, protocol |-> "", hostname |-> ""]
        ELSE [ok |-> TRUE, protocol |-> scheme \o ":", hostname |-> host]

(***************************************************************************)
(* Authentication (server.js 597-655).                                     *)
(***************************************************************************)
\* two values crypto.randomBytes(32).toString('hex') can return
TokenA == "3f9a1c0de4b27a5586c1d09e7f3b2a4411c8e6d0f5a97b3c2e1d4f6a8b0c9e7d"

TokenB == "b07e41d9c3a2f8e6150d7c9b4a3e2f1086d5c4b3a291807f6e5d4c3b2a190817"

GeneratedTokens == {TokenA, TokenB}

\* String.prototype.trim
RECURSIVE Trim(_)
Trim(s) ==
    IF s = "" THEN s
    ELSE IF IsSpaceChar(CharAt(s, 1)) THEN Trim(SubSeq(s, 2, Len(s)))
    ELSE IF IsSpaceChar(CharAt(s, Len(s))) THEN Trim(SubSeq(s, 1, Len(s) - 1))
    ELSE s

\* the token a start uses: the file's, when it holds at least 32 characters,
\* else `fresh`, the value generateAuthToken() returns
loadOrCreateAuthToken(tf, fresh) ==
    IF tf.exists /\ Len(Trim(tf.text)) >= 32 THEN Trim(tf.text) ELSE fresh

\* "ok": true; "reject": false; "throw": crypto.timingSafeEqual raises
\* RangeError (its two buffers differ in byte length)
validateAuth(authHeader, token) ==
    IF authHeader = None \/ authHeader = Some("") THEN "reject"
    ELSE LET parts == Split(authHeader[1], " ")
         IN  IF Len(parts) # 2 \/ toLowerCase(parts[1]) # "bearer" THEN "reject"
             ELSE IF Len(parts[2]) # Len(token) THEN "reject"
             ELSE IF ByteLength(parts[2]) # ByteLength(token) THEN "throw"
             ELSE IF parts[2] = token THEN "ok"
             ELSE "reject"

(***************************************************************************)
(* CORS (server.js 665-678).                                               *)
(***************************************************************************)
isAllowedOrigin(origin) ==
    IF origin = None \/ origin = Some("") THEN TRUE
    ELSE LET url == ParseUrl(origin[1])
         IN  url.ok /\ url.hostname \in {"localhost", "127.0.0.1"}

\* every origin is echoed
EchoOrigin(origin) == origin

getCorsOrigin(origin) ==
    IF origin = None \/ origin = Some("") THEN None
    ELSE IF isAllowedOrigin(origin) THEN origin ELSE None

(***************************************************************************)
(* The store (server.js 684-699).  db.memories is an object: its keys, in  *)
(* insertion order, with the array each holds.  db.profiles is never read  *)
(* nor written by the server and is left out.                              *)
(***************************************************************************)
EmptyDb == [memories |-> <<>>]

\* the position of key `tag` in db.memories, 0 when it is not a key
KeyIndex(d, tag) ==
    IF \E i \in 1..Len(d.memories) : d.memories[i].tag = tag
    THEN CHOOSE i \in 1..Len(d.memories) : d.memories[i].tag = tag
    ELSE 0

\* db.memories[tag] || []
MemoriesOf(d, tag) ==
    IF KeyIndex(d, tag) = 0 THEN <<>> ELSE d.memories[KeyIndex(d, tag)].list

\* Object.values(db.memories).flat()
RECURSIVE FlatFrom(_, _)
FlatFrom(d, i) ==
    IF i > Len(d.memories) THEN <<>>
    ELSE d.memories[i].list \o FlatFrom(d, i + 1)

AllRecords(d) == FlatFrom(d, 1)

\* JSON.stringify(db, null, 2), line group by line group: the opening brace,
\* then for every key its name, its records and the end of its array, then
\* the closing brace
RECURSIVE StringifyFrom(_, _)
StringifyFrom(d, i) ==
    IF i > Len(d.memories) THEN <<>>
    ELSE <<[k |-> "key", v |-> d.memories[i].tag]>>
         \o [j \in 1..Len(d.memories[i].list) |->
                [k |-> "record", v |-> d.memories[i].list[j]]]
         \o <<[k |-> "end", v |-> ""]>>
         \o StringifyFrom(d, i + 1)

JSONstringify(d) ==
    <<[k |-> "open", v |-> ""]>> \o StringifyFrom(d, 1) \o <<[k |-> "close", v |-> ""]>>

\* JSON.parse of a file's lines: [ok |-> FALSE] is the SyntaxError it throws.
\* `inKey` tells whether line i is inside the array of the last key of acc.
RECURSIVE ParseFrom(_, _, _, _)
ParseFrom(lines, i, acc, inKey) ==
    IF i > Len(lines) THEN [ok |-> FALSE, value |-> EmptyDb]
    ELSE LET l == lines[i]
             n == Len(acc)
         IN  CASE l.k = "close" ->
                     [ok |-> ~inKey /\ i = Len(lines), value |-> [memories |-> acc]]
               [] l.k = "key" /\ ~inKey ->
                     ParseFrom(lines, i + 1,
                               Append(acc, [tag |-> l.v, list |-> <<>>]), TRUE)
               [] l.k = "record" /\ inKey ->
                     ParseFrom(lines, i + 1,
                               [acc EXCEPT ![n].list = Append(@, l.v)], TRUE)
               [] l.k = "end" /\ inKey -> ParseFrom(lines, i + 1, acc, FALSE)
               [] OTHER -> [ok |-> FALSE, value |-> EmptyDb]

\* a text that is JSON and no object with a `memories` key is the one line
\* [k |-> "value", v |-> text]; JSON.parse returns its value, which holds no
\* `memories`
JSONparse(lines) ==
    IF Len(lines) = 1 /\ lines[1].k = "value"
    THEN [ok |-> TRUE, value |-> [json |-> lines[1].v]]
    ELSE IF Len(lines) = 0 \/ lines[1].k # "open" THEN [ok |-> FALSE, value |-> EmptyDb]
    ELSE ParseFrom(lines, 2, <<>>, FALSE)

\* no snapshot file
NoSnapshot == [exists |-> FALSE, lines |-> <<>>]

\* a fallback that is a store with the default tag in it
ParsedOrDefaultTag(parsed) ==
    IF parsed.ok THEN parsed.value
    ELSE [memories |-> <<[tag |-> "default", list |-> <<>>]>>]

\* the catch of loadDb: a text that does not parse gives the empty store
ParsedOrEmpty(parsed) == IF parsed.ok THEN parsed.value ELSE EmptyDb

loadDb(f) == IF f.exists THEN ParsedOrEmpty(JSONparse(f.lines)) ELSE EmptyDb

\* whether Object.values(d.memories) returns: d.memories of {} and of [] is
\* undefined, reading it of null throws, and Object.values(undefined) throws
HasMemories(d) == "memories" \in DOMAIN d

\* fs.writeFileSync(DB_FILE, text): the file is opened with O_TRUNC and the
\* text written.  `io` is what the operating system lets happen:
\*   "ok"     the whole text is written;
\*   "denied" the open fails, the file keeps its content and the call throws;
\*   "short"  the file is truncated, io.n lines get written, the call throws;
\*   "killed" as "short", but the process dies in the call.
writeFileSync(f, lines, io) ==
    CASE io.kind = "ok" -> [exists |-> TRUE, lines |-> lines]
      [] io.kind = "denied" -> f
      [] OTHER -> [exists |-> TRUE, lines |-> SubSeq(lines, 1, Min(io.n, Len(lines) - 1))]

saveDb(f, d, io) == writeFileSync(f, JSONstringify(d), io)

(***************************************************************************)
(* Text search (server.js 705-767).  A score is the fraction                *)
(* matches / queryTokens.length, kept as the exact pair <<num, den>> in    *)
(* lowest terms (a double divided by itself is exactly 1).                 *)
(***************************************************************************)
\* text.toLowerCase().replace(/[^\w\s]/g, ' ').split(/\s+/).filter(t => t.length > 2),
\* scanning from character i with the word `cur` being read
RECURSIVE TokensFrom(_, _, _)
TokensFrom(s, i, cur) ==
    IF i > Len(s) THEN (IF Len(cur) > 2 THEN <<cur>> ELSE <<>>)
    ELSE IF IsWordChar(CharAt(s, i)) THEN TokensFrom(s, i + 1, cur \o CharAt(s, i))
    ELSE (IF Len(cur) > 2 THEN <<cur>> ELSE <<>>) \o TokensFrom(s, i + 1, "")

tokenize(text) ==
    IF text = "" THEN <<>> ELSE TokensFrom(toLowerCase(text), 1, "")

\* the texts the model's requests carry
Contents == {"alpha beta", "Alpha, gamma delta!", " alpha beta\nGamma"}

Queries == {"alpha gamma", "BETA go", "gamma gamma alpha"}

\* the contents of a three-record scenario, in the order of their adds
ScenarioContents == <<"alpha beta", "beta gamma", "alpha gamma delta">>

\* tokenize, evaluated once for each of these texts
tokenTable ==
    [text \in Contents \cup Queries \cup {ScenarioContents[i] : i \in 1..3} |->
        tokenize(text)]

Tokens(text) == IF text \in DOMAIN tokenTable THEN tokenTable[text] ELSE tokenize(text)

RECURSIVE Gcd(_, _)
Gcd(a, b) == IF b = 0 THEN a ELSE Gcd(b, a % b)

\* a / b in lowest terms (b > 0), for the divisor g of both
Lowest(a, b, g) == <<a \div g, b \div g>>

\* the number a / b (b > 0)
Ratio(a, b) == IF a = 0 THEN <<0, 1>> ELSE Lowest(a, b, Gcd(a, b))

\* x / y for two such numbers, y > 0
Divide(x, y) == Ratio(x[1] * y[2], x[2] * y[1])

\* x - y > 0
Greater(x, y) == x[1] * y[2] > y[1] * x[2]

\* a count that is all or nothing: every query token or none
MatchesAll(queryTokens, docSet) ==
    IF \A i \in 1..Len(queryTokens) : queryTokens[i] \in docSet
    THEN Len(queryTokens)
    ELSE 0

\* the loop of calculateScore over the query tokens
Matches(queryTokens, docSet) ==
    Cardinality({i \in 1..Len(queryTokens) : queryTokens[i] \in docSet})

calculateScore(queryTokens, docTokens) ==
    IF Len(queryTokens) = 0 \/ Len(docTokens) = 0 THEN <<0, 1>>
    ELSE Ratio(Matches(queryTokens, {docTokens[i] : i \in 1..Len(docTokens)}),
               Len(queryTokens))

\* Array.prototype.slice(start, end) (0-based, end exclusive, negative values
\* counted from the end)
Slice(a, start, end) ==
    SubSeq(a,
           (IF start < 0 THEN Max(Len(a) + start, 0) ELSE Min(start, Len(a))) + 1,
           IF end < 0 THEN Max(Len(a) + end, 0) ELSE Min(end, Len(a)))

\* Array.prototype.reverse
Reverse(a) == [i \in 1..Len(a) |-> a[Len(a) + 1 - i]]

IsLive(m) == ~m.deleted

\* Array.prototype.filter(m => !m.deleted)
Live(a) == SelectSeq(a, IsLive)

\* whether a[i] stands before a[j] once a is sorted by (a, b) => b.score -
\* a.score: Array.prototype.sort is stable, so elements of equal score keep
\* their order
Before(a, i, j) ==
    Greater(a[i].score, a[j].score) \/ (a[i].score = a[j].score /\ i < j)

\* the array whose k-th element is the one of a that `ranks` puts k-th
ByRank(a, ranks) ==
    [k \in 1..Len(a) |-> a[CHOOSE j \in 1..Len(a) : ranks[j] = k]]

\* the array left as it is
Unsorted(a) == a

\* scored.sort((a, b) => b.score - a.score)
SortByScore(a) ==
    ByRank(a, [j \in 1..Len(a) |->
                  Cardinality({i \in 1..Len(a) : Before(a, i, j)}) + 1])

\* every record with its score
ScoreAll(memories, queryTokens) ==
    [i \in 1..Len(memories) |->
        [m |-> memories[i],
         score |-> calculateScore(queryTokens, Tokens(memories[i].content))]]

\* the records the scoring loop keeps: not deleted, score above 0
IsScored(x) == ~x.m.deleted /\ Greater(x.score, <<0, 1>>)

\* the scoring loop of searchMemories
Scored(memories, queryTokens) == SelectSeq(ScoreAll(memories, queryTokens), IsScored)

\* one element of the results: similarity is score / maxScore
SearchResult(x, maxScore) ==
    [id |-> x.m.id,
     content |-> x.m.content,
     memory |-> x.m.content,
     title |-> x.m.title,
     similarity |-> Divide(x.score, maxScore),
     metadata |-> x.m.metadata,
     createdAt |-> x.m.createdAt,
     updatedAt |-> x.m.updatedAt]

\* the return of searchMemories, its `timing` left out; maxScore is
\* topResults[0].score
SearchResults(topResults, total) ==
    [results |-> [i \in 1..Len(topResults) |->
                     SearchResult(topResults[i], topResults[1].score)],
     total |-> total]

\* "Sort and limit", for the scored records
SortAndLimit(scored, limit) == SearchResults(Slice(scored, 0, limit), Len(scored))

\* searchMemories once `memories` is read
SearchIn(memories, query, limit) ==
    IF Len(memories) = 0 THEN [results |-> <<>>, total |-> 0]
    ELSE SortAndLimit(SortByScore(Scored(memories, Tokens(query))), limit)

searchMemories(d, containerTag, query, limit) ==
    SearchIn(MemoriesOf(d, containerTag), query, limit)

(***************************************************************************)
(* Profile generation (server.js 770-816).  A pattern                      *)
(*     /(?:verb|verb|...)\s+(.{5,60}?)(?:\.|,|$)/gi                        *)
(* is the list of its verbs, each with whether it ends in an optional s.   *)
(* A set of facts is the sequence of its members in insertion order, the   *)
(* order Array.from reads them in.                                         *)
(***************************************************************************)
STATIC_PATTERNS ==
    << << <<"prefer", TRUE>>, <<"like", TRUE>>, <<"use", TRUE>>, <<"want", TRUE>> >>,
       << <<"always", FALSE>>, <<"usually", FALSE>>, <<"typically", FALSE>> >> >>

DYNAMIC_PATTERNS ==
    << << <<"working on", FALSE>>, <<"implementing", FALSE>>, <<"building", FALSE>>,
          <<"fixing", FALSE>> >>,
       << <<"just", FALSE>>, <<"recently", FALSE>>, <<"currently", FALSE>> >> >>

\* what `.` does not match
IsLineTerminator(c) == c \in {"\n", "\r"}

\* the position after the verb `alt` read at position i of s, ignoring case;
\* 0 when it is not there
VerbEnd(s, i, alt) ==
    IF i + Len(alt[1]) - 1 > Len(s)
           \/ toLowerCase(SubSeq(s, i, i + Len(alt[1]) - 1)) # alt[1]
    THEN 0
    ELSE IF alt[2] /\ i + Len(alt[1]) <= Len(s)
                /\ toLowerCase(CharAt(s, i + Len(alt[1]))) = "s"
    THEN i + Len(alt[1]) + 1
    ELSE i + Len(alt[1])

\* the number of whitespace characters of s from position e on
RECURSIVE SpaceRun(_, _)
SpaceRun(s, e) ==
    IF e > Len(s) \/ ~IsSpaceChar(CharAt(s, e)) THEN 0 ELSE 1 + SpaceRun(s, e + 1)

\* whether (.{5,60}?)(?:\.|,|$) matches at c with a capture of n characters
Captures(s, c, n) ==
    /\ c + n - 1 <= Len(s)
    /\ \A k \in c..(c + n - 1) : ~IsLineTerminator(CharAt(s, k))
    /\ c + n > Len(s) \/ CharAt(s, c + n) \in {".", ","}

\* the length of the lazy capture at c: the least that matches, 0 when none
CaptureLen(s, c) ==
    IF \E n \in 5..60 : Captures(s, c, n)
    THEN CHOOSE n \in 5..60 :
             Captures(s, c, n) /\ \A m \in 5..(n - 1) : ~Captures(s, c, m)
    ELSE 0

\* \s+ is greedy: it gives back one character at a time, from k down; the
\* start of the capture, 0 when there is no match
RECURSIVE CaptureStart(_, _, _)
CaptureStart(s, e, k) ==
    IF k = 0 THEN 0
    ELSE IF CaptureLen(s, e + k) > 0 THEN e + k
    ELSE CaptureStart(s, e, k - 1)

\* the capture that starts at c, with the position the next match is
\* looked for at; c = 0: no match
MatchOf(s, c, n) ==
    IF c = 0 THEN None
    ELSE Some(<<SubSeq(s, c, c + n - 1), IF c + n > Len(s) THEN c + n ELSE c + n + 1>>)

\* the match of a verb that ends before e (0: the verb is not there)
AfterVerb(s, e) ==
    IF e = 0 THEN None
    ELSE MatchOf(s, CaptureStart(s, e, SpaceRun(s, e)),
                 IF CaptureStart(s, e, SpaceRun(s, e)) = 0 THEN 0
                 ELSE CaptureLen(s, CaptureStart(s, e, SpaceRun(s, e))))

\* the match of the pattern at position i, its alternatives tried from a on
RECURSIVE MatchAt(_, _, _, _)
MatchAt(s, i, pattern, a) ==
    IF a > Len(pattern) THEN None
    ELSE IF AfterVerb(s, VerbEnd(s, i, pattern[a])) # None
    THEN AfterVerb(s, VerbEnd(s, i, pattern[a]))
    ELSE MatchAt(s, i, pattern, a + 1)

\* the captures of content.matchAll(pattern), looked for from position i on
RECURSIVE matchAll(_, _, _)
matchAll(s, pattern, i) ==
    IF i > Len(s) THEN <<>>
    ELSE IF MatchAt(s, i, pattern, 1) = None THEN matchAll(s, pattern, i + 1)
    ELSE <<MatchAt(s, i, pattern, 1)[1][1]>>
             \o matchAll(s, pattern, MatchAt(s, i, pattern, 1)[1][2])

\* the contents of the records the profile is asked of
ProfileContents ==
    {"User prefers TypeScript over JavaScript",
     "Always  run the tests , likes small commits.",
     "currently fixing the login bug, uses vim\nwants tea",
     "likes small commits"}

\* the content of the i-th of many records
ManyContent(i) == "User likes thing number " \o ToString(i) \o "."

\* matchAll, evaluated once for each content and pattern
matchTable ==
    [text \in ProfileContents \cup {ManyContent(i) : i \in 1..ManyRecords} |->
        [static |-> [p \in 1..2 |-> matchAll(text, STATIC_PATTERNS[p], 1)],
         dynamic |-> [p \in 1..2 |-> matchAll(text, DYNAMIC_PATTERNS[p], 1)]]]

\* a window that keeps the soft-deleted records
RecentWithDeleted(memories) == Slice(memories, -50, Len(memories))

\* memories.filter((m) => !m.deleted).slice(-50)
Recent(memories) == Slice(Live(memories), -50, Len(Live(memories)))

\* match[1].trim() for each match of the two patterns of a family in the
\* records lo..hi of `recent`, in the order the loops meet them
RECURSIVE Phrases(_, _, _, _)
Phrases(recent, family, lo, hi) ==
    IF lo > hi THEN <<>>
    ELSE IF lo = hi
    THEN [k \in 1..(Len(matchTable[recent[lo].content][family][1])
                      + Len(matchTable[recent[lo].content][family][2])) |->
             Trim((matchTable[recent[lo].content][family][1]
                       \o matchTable[recent[lo].content][family][2])[k])]
    ELSE Phrases(recent, family, lo, (lo + hi) \div 2)
             \o Phrases(recent, family, ((lo + hi) \div 2) + 1, hi)

\* the places of `all` that hold a phrase for the first time
FirstPlaces(all) == {k \in 1..Len(all) : \A j \in 1..(k - 1) : all[j] # all[k]}

\* the i-th smallest of the places P
Place(P, i) == CHOOSE k \in P : Cardinality({j \in P : j < k}) = i - 1

\* if (match[1] && facts.size < 10) facts.add(match[1].trim()) for each of
\* `all`: a Set takes a phrase once, and no more once it holds 10; a capture
\* has 5 characters or more, so match[1] is never empty
FactsOf(all) ==
    [i \in 1..Min(10, Cardinality(FirstPlaces(all))) |-> all[Place(FirstPlaces(all), i)]]

\* generateProfile once `recent` is read
ProfileOf(recent) ==
    IF Len(recent) = 0 THEN [static |-> <<>>, dynamic |-> <<>>]
    ELSE [static |-> FactsOf(Phrases(recent, "static", 1, Len(recent))),
          dynamic |-> FactsOf(Phrases(recent, "dynamic", 1, Len(recent)))]

generateProfile(d, containerTag) == ProfileOf(Recent(MemoriesOf(d, containerTag)))

(***************************************************************************)
(* Helpers and API handlers (server.js 822-927).  A handler's value is     *)
(* the store it leaves, whether it called saveDb and generateId, and what  *)
(* it returns.                                                             *)
(***************************************************************************)
\* crypto.randomUUID(), n ids having been handed out: a value not returned
\* before
generateId(n) == "uuid-" \o ToString(n + 1)

\* the title of a first line already trimmed
Truncated(firstLine) ==
    IF Len(firstLine) <= 100 THEN firstLine ELSE SubSeq(firstLine, 1, 100) \o "..."

extractTitle(content) == Truncated(Trim(Split(content, "\n")[1]))

\* a JSON array is the pair <<"array", elements>>; Array.isArray
IsArray(v) == Len(v) = 2

\* a || b for an optional string a
OrElse(a, b) == IF a = None \/ a = Some("") THEN b ELSE a[1]

\* if (!db.memories[tag]) db.memories[tag] = []
WithKey(d, tag) ==
    IF KeyIndex(d, tag) = 0
    THEN [memories |-> Append(d.memories, [tag |-> tag, list |-> <<>>])]
    ELSE d

\* db.memories[tag].push(record); saveDb(db); return {id, status: 'ok'}
Push(d, tag, record, uuid) ==
    [db |-> [memories |-> [d.memories EXCEPT ![KeyIndex(d, tag)].list = Append(@, record)]],
     save |-> TRUE,
     uuid |-> uuid,
     result |-> [error |-> None, id |-> record.id, status |-> "ok"]]

NewRecord(body, id, now) ==
    [id |-> id,
     content |-> body.content[1],
     title |-> extractTitle(body.content[1]),
     metadata |-> IF body.metadata = None THEN <<>> ELSE body.metadata[1],
     createdAt |-> now,
     updatedAt |-> now,
     deleted |-> FALSE]

handleAdd(d, body, n, now) ==
    IF body.content = None \/ body.content = Some("")
    THEN [db |-> d, save |-> FALSE, uuid |-> FALSE,
          result |-> [error |-> Some("content is required"), status |-> 400]]
    ELSE Push(WithKey(d, OrElse(body.containerTag, "default")),
              OrElse(body.containerTag, "default"),
              NewRecord(body, OrElse(body.customId, generateId(n)), now),
              body.customId = None \/ body.customId = Some(""))

\* a search that sorts the arrays of the store in place
SearchInPlace(d, body) ==
    IF body.q = None \/ body.q = Some("")
    THEN [db |-> d, save |-> FALSE, uuid |-> FALSE,
          result |-> [error |-> Some("q is required"), status |-> 400]]
    ELSE [db |-> [memories |-> [t \in 1..Len(d.memories) |->
                                   [d.memories[t] EXCEPT !.list = Reverse(@)]]],
          save |-> FALSE, uuid |-> FALSE,
          result |-> [error |-> None] @@
              searchMemories(d, OrElse(body.containerTag, "default"), body.q[1],
                             Min(IF body.limit = None THEN 10 ELSE body.limit[1], 50))]

handleProfile(d, body) ==
    IF body.containerTag = None \/ body.containerTag = Some("")
    THEN [db |-> d, save |-> FALSE, uuid |-> FALSE,
          result |-> [error |-> Some("containerTag is required"), status |-> 400]]
    ELSE [db |-> d, save |-> FALSE, uuid |-> FALSE,
          result |-> [error |-> None,
                      profile |-> generateProfile(d, body.containerTag[1]),
                      searchResults |->
                          IF body.q = None \/ body.q = Some("") THEN None
                          ELSE Some(searchMemories(d, body.containerTag[1], body.q[1], 5))]]

handleSearchMemories(d, body) ==
    IF body.q = None \/ body.q = Some("")
    THEN [db |-> d, save |-> FALSE, uuid |-> FALSE,
          result |-> [error |-> Some("q is required"), status |-> 400]]
    ELSE [db |-> d, save |-> FALSE, uuid |-> FALSE,
          result |-> [error |-> None] @@
              searchMemories(d, OrElse(body.containerTag, "default"), body.q[1],
                             Min(IF body.limit = None THEN 10 ELSE body.limit[1], 50))]

\* the tag handleListMemories reads
ListTag(containerTags) ==
    IF IsArray(containerTags)
    THEN (IF Len(containerTags[2]) > 0 THEN containerTags[2][1] ELSE "undefined")
    ELSE OrElse(containerTags, "default")

\* the fields a listed memory shows
Listed(m) ==
    [id |-> m.id, content |-> m.content, title |-> m.title, metadata |-> m.metadata,
     createdAt |-> m.createdAt, updatedAt |-> m.updatedAt]

\* the list without its reverse(): oldest first
ListOfOldestFirst(live, limit) ==
    [i \in 1..Len(Slice(live, 0 - limit, Len(live))) |->
        Listed(Slice(live, 0 - limit, Len(live))[i])]

\* live.slice(-limit).reverse().map(...)
ListOf(live, limit) ==
    [i \in 1..Len(Slice(live, 0 - limit, Len(live))) |->
        Listed(Reverse(Slice(live, 0 - limit, Len(live)))[i])]

handleListMemories(d, body) ==
    [db |-> d, save |-> FALSE, uuid |-> FALSE,
     result |-> [error |-> None,
                 memories |-> ListOf(Live(MemoriesOf(d, ListTag(body.containerTags))),
                                     IF body.limit = None THEN 20 ELSE body.limit[1])]]

\* db.memories[tag].find(m => m.id === id): the first position, 0 for none
\* findIndex with a predicate that every record satisfies
FindAny(list, id) == IF Len(list) > 0 THEN 1 ELSE 0

FindId(list, id) ==
    IF \E j \in 1..Len(list) : list[j].id = id
    THEN CHOOSE j \in 1..Len(list) :
             list[j].id = id /\ \A h \in 1..(j - 1) : list[h].id # id
    ELSE 0

\* the deletion without its saveDb(db)
MarkDeletedUnsaved(d, i, j, now) ==
    [db |-> [memories |-> [d.memories EXCEPT ![i].list[j].deleted = TRUE,
                                             ![i].list[j].updatedAt = now]],
     save |-> FALSE,
     uuid |-> FALSE,
     result |-> [error |-> None, status |-> "ok"]]

\* mem.deleted = true; mem.updatedAt = now; saveDb(db); return {status: 'ok'}
MarkDeleted(d, i, j, now) ==
    [db |-> [memories |-> [d.memories EXCEPT ![i].list[j].deleted = TRUE,
                                             ![i].list[j].updatedAt = now]],
     save |-> TRUE,
     uuid |-> FALSE,
     result |-> [error |-> None, status |-> "ok"]]

\* the loop over Object.keys(db.memories), from key i on
RECURSIVE DeleteFrom(_, _, _, _)
DeleteFrom(d, i, id, now) ==
    IF i > Len(d.memories)
    THEN [db |-> d, save |-> FALSE, uuid |-> FALSE,
          result |-> [error |-> Some("Memory not found"), status |-> 404]]
    ELSE IF FindId(d.memories[i].list, id) > 0
    THEN MarkDeleted(d, i, FindId(d.memories[i].list, id), now)
    ELSE DeleteFrom(d, i + 1, id, now)

handleDeleteMemory(d, id, now) == DeleteFrom(d, 1, id, now)

\* the Stop hook passes its session id as customId, with metadata
CustomIdInputs == {None, Some("sess-1")}

HookMetadata == << <<"type", "session_turn">> >>

\* a JSON body; each handler reads the keys it knows
JsonBody(content, tag, customId, q, limit, tags) ==
    [content |-> content, containerTag |-> tag, customId |-> customId,
     metadata |-> IF customId = None THEN None ELSE Some(HookMetadata),
     q |-> q, limit |-> limit, containerTags |-> tags]

\* the body {}
EmptyBody == JsonBody(None, None, None, None, None, None)

\* a body with the keys of every route
AnyBody == JsonBody(Some("alpha beta"), None, None, Some("alpha gamma"), None, None)

\* the cap of parseBody on data.length
MaxBodyLength == 2 * 1024 * 1024

\* The text of a request body is the pair <<data.length, whether
\* JSON.parse(data) returns>>; `body` is then what JSON.parse returns.
NoText == <<0, TRUE>>

JsonText == <<20, TRUE>>

BadText == <<20, FALSE>>

BigText == <<MaxBodyLength + 1, TRUE>>

\* parseBody: the promise is rejected by the data event that takes the text
\* over the cap, or by the end event when JSON.parse throws; no text at all
\* resolves to {}
parseBody(text, body) ==
    IF text[1] > MaxBodyLength
    THEN [ok |-> FALSE, error |-> "Request body too large (max 2MB)", value |-> EmptyBody]
    ELSE IF text[1] = 0 THEN [ok |-> TRUE, error |-> "", value |-> EmptyBody]
    ELSE IF ~text[2] THEN [ok |-> FALSE, error |-> "Invalid JSON", value |-> EmptyBody]
    ELSE [ok |-> TRUE, error |-> "", value |-> body]

(***************************************************************************)
(* The HTTP server (server.js 933-1048).  A request is its method, path,   *)
(* Authorization and Origin headers and its JSON body.                     *)
(***************************************************************************)
\* Authorization headers a caller can send to a server whose token is t
AuthHeaders(t) ==
    {None,
     Some("Bearer " \o t),
     Some("bearer " \o t),
     Some("Basic " \o t),
     Some("Bearer"),
     Some(t),
     Some("Bearer  " \o t),
     Some("Bearer " \o t \o "0"),
     Some("Bearer " \o SubSeq(t, 1, Len(t) - 1) \o "0"),
     Some("Bearer " \o SubSeq(t, 1, Len(t) - 1) \o "é")}

\* validateAuth, evaluated once for each of these headers
authTable ==
    [t \in GeneratedTokens |-> [h \in AuthHeaders(t) |-> validateAuth(h, t)]]

AuthOutcome(h, t) ==
    IF t \in DOMAIN authTable /\ h \in DOMAIN authTable[t] THEN authTable[t][h]
    ELSE validateAuth(h, t)

StartsWith(s, prefix) == Len(s) >= Len(prefix) /\ SubSeq(s, 1, Len(prefix)) = prefix

\* pathname.replace(/^\/v1/, '')
routePath(pathname) ==
    IF StartsWith(pathname, "/v1") THEN SubSeq(pathname, 4, Len(pathname))
    ELSE pathname

isHealthCheck(pathname) == routePath(pathname) = "/health" \/ pathname = "/health"

\* the branch of handleRequest's if/else chain a request of route path rp takes
RouteOf(rp, method, health) ==
    IF (rp = "/add" \/ rp = "/") /\ method = "POST" THEN "add"
    ELSE IF rp = "/profile" /\ method = "POST" THEN "profile"
    ELSE IF rp = "/search/memories" /\ method = "POST" THEN "search"
    ELSE IF rp = "/memories/list" /\ method = "POST" THEN "list"
    ELSE IF StartsWith(rp, "/memories/") /\ method = "DELETE" THEN "delete"
    ELSE IF health THEN "health"
    ELSE "none"

Route(req) == RouteOf(routePath(req.pathname), req.method, isHealthCheck(req.pathname))

\* parts.pop()
Last(parts) == parts[Len(parts)]

\* routePath.split('/').pop()
LastSegment(rp) == Last(Split(rp, "/"))

\* the health result
HealthResult(d) ==
    [db |-> d, save |-> FALSE, uuid |-> FALSE,
     result |-> [error |-> None, status |-> "ok", version |-> "1.0.0",
                 storage |-> "json", memories |-> Len(Live(AllRecords(d)))]]

\* the handler the route calls, with its value
Dispatch(d, req, route, n, now) ==
    IF route = "add" THEN handleAdd(d, parseBody(req.text, req.body).value, n, now)
    ELSE IF route = "profile"
    THEN handleProfile(d, parseBody(req.text, req.body).value)
    ELSE IF route = "search"
    THEN handleSearchMemories(d, parseBody(req.text, req.body).value)
    ELSE IF route = "list"
    THEN handleListMemories(d, parseBody(req.text, req.body).value)
    ELSE IF route = "delete"
    THEN handleDeleteMemory(d, LastSegment(routePath(req.pathname)), now)
    ELSE HealthResult(d)

\* a result without its `error` key: the body sendJson serialises
Body(result) == [key \in DOMAIN result \ {"error"} |-> result[key]]

NoBody == [none |-> TRUE]

ErrorBody(message) == [error |-> message]

\* what handling a request comes to: the response (status 0: none is ever
\* sent), the store and the snapshot file it leaves, whether generateId was
\* called, whether the process died, and the flush it died in
Outcome(status, body, cors, d, f, uuid, dies, flush) ==
    [status |-> status, body |-> body, cors |-> cors, db |-> d, file |-> f,
     uuid |-> uuid, dies |-> dies, flush |-> flush]

\* sendError / sendJson for a handler's value h, the snapshot file being f
Send(h, f, cors) ==
    IF h.result.error # None
    THEN Outcome(h.result.status, ErrorBody(h.result.error[1]), cors, h.db, f,
                 h.uuid, FALSE, None)
    ELSE Outcome(200, Body(h.result), cors, h.db, f, h.uuid, FALSE, None)

\* the handler has run; its saveDb, if it called it, goes as io says
AfterHandler(h, f, io, cors) ==
    IF ~h.save \/ io.kind = "ok"
    THEN Send(h, IF h.save THEN saveDb(f, h.db, io) ELSE f, cors)
    ELSE IF io.kind = "killed"
    THEN Outcome(0, NoBody, None, h.db, saveDb(f, h.db, io), h.uuid, TRUE,
                 Some([old |-> f, new |-> JSONstringify(h.db)]))
    ELSE \* saveDb throws inside the try block: the catch answers 500
         Outcome(500, ErrorBody("EIO: i/o error, write"), cors, h.db,
                 saveDb(f, h.db, io), h.uuid, FALSE, None)

\* the try block of handleRequest
Routed(d, f, n, req, now, io, route, cors) ==
    IF route = "none"
    THEN Outcome(404, ErrorBody("Not found"), cors, d, f, FALSE, FALSE, None)
    ELSE IF route \in {"add", "profile", "search", "list"}
                /\ ~parseBody(req.text, req.body).ok
    THEN \* await parseBody(req) throws inside the try block: the catch answers 500
         Outcome(500, ErrorBody(parseBody(req.text, req.body).error), cors, d, f,
                 FALSE, FALSE, None)
    ELSE AfterHandler(Dispatch(d, req, route, n, now), f, io, cors)

\* validateAuth has returned or thrown.  It is called outside the try block:
\* what it throws rejects the promise of the async handler, which nothing
\* handles, and the process exits on the unhandled rejection
Checked(d, f, n, req, now, io, auth, cors) ==
    IF auth = "throw" THEN Outcome(0, NoBody, None, d, f, FALSE, TRUE, None)
    ELSE IF auth = "reject"
    THEN Outcome(401, ErrorBody("Unauthorized - Bearer token required"), cors, d, f,
                 FALSE, FALSE, None)
    ELSE Routed(d, f, n, req, now, io, Route(req), cors)

\* the request is not a preflight
Served(d, f, token, n, req, now, io, cors) ==
    IF isHealthCheck(req.pathname)
    THEN Routed(d, f, n, req, now, io, Route(req), cors)
    ELSE Checked(d, f, n, req, now, io, AuthOutcome(req.authorization, token), cors)

Preflight(d, f, cors) ==
    Outcome(IF cors # None THEN 200 ELSE 403, NoBody, cors, d, f, FALSE, FALSE, None)

handleRequest(d, f, token, n, req, now, io) ==
    IF req.method = "OPTIONS" THEN Preflight(d, f, getCorsOrigin(req.origin))
    ELSE Served(d, f, token, n, req, now, io, getCorsOrigin(req.origin))

(***************************************************************************)
(* The requests the model sends.                                           *)
(***************************************************************************)
\* the values new Date() can return; the wall clock can step back
Clock == {1, 2}

OkIo == [kind |-> "ok", n |-> 0]

\* what the operating system can do to a flush
WriteOutcomes ==
    {OkIo, [kind |-> "denied", n |-> 0], [kind |-> "short", n |-> 1],
     [kind |-> "killed", n |-> 1]}

TagInputs == {None, Some("proj1")}

AddBody(content, tag, customId) == JsonBody(content, tag, customId, None, None, None)

ListBody(tags, limit) == JsonBody(None, None, None, None, limit, tags)

SearchBody(q, tag, limit) == JsonBody(None, tag, None, q, limit, None)


AddBodies ==
    {AddBody(Some(" alpha beta\nGamma"), t, i) : t \in TagInputs, i \in CustomIdInputs}
        \cup {EmptyBody, AddBody(Some(""), None, None)}

ListBodies ==
    {ListBody(None, None), ListBody(Some("proj1"), None),
     ListBody(<<"array", <<"proj1">> >>, Some(1)), ListBody(None, Some(0))}

SearchBodies ==
    {SearchBody(Some("alpha gamma"), t, None) : t \in TagInputs}
        \cup {SearchBody(None, None, None)}

\* ids a caller can name in DELETE /memories/:id
DeleteIds == {generateId(i - 1) : i \in 1..MaxRecords} \cup {"sess-1", "no-such-id"}

\* resp is the last response with the request it answers and what the
\* request met: `after` is the successful add that came right before it,
\* `already` says that records have the id a DELETE names and all of them
\* were soft-deleted, `changed` that the store or the snapshot file differ
\* from what they were
NoResponse ==
    [req |-> None, route |-> "none", status |-> 0, body |-> NoBody, cors |-> None,
     after |-> None, already |-> FALSE, absent |-> FALSE, changed |-> FALSE]

\* the records of the whole store with this id
WithId(d, id) == {i \in 1..Len(AllRecords(d)) : AllRecords(d)[i].id = id}

AlreadyDeleted(d, id) ==
    WithId(d, id) # {} /\ \A i \in WithId(d, id) : AllRecords(d)[i].deleted

ServedRoute(req) == IF req.method = "OPTIONS" THEN "preflight" ELSE Route(req)

\* the request is handled to the end: o is what handleRequest comes to
Commit(req, route, o) ==
    /\ resp' = [req |-> Some(req), route |-> route, status |-> o.status,
                body |-> o.body, cors |-> o.cors, after |-> prevAdd,
                already |-> route = "delete"
                            /\ AlreadyDeleted(db, LastSegment(routePath(req.pathname))),
                absent |-> route = "delete"
                           /\ WithId(db, LastSegment(routePath(req.pathname))) = {},
                changed |-> o.db # db \/ o.file # file]
    /\ running' = ~o.dies
    /\ db' = IF o.dies THEN EmptyDb ELSE o.db
    /\ file' = o.file
    /\ uuids' = IF o.uuid THEN uuids + 1 ELSE uuids
    /\ prevAdd' = IF route = "add" /\ o.status = 200
                  THEN Some([id |-> o.body.id,
                             tag |-> OrElse(req.body.containerTag, "default"),
                             content |-> req.body.content[1]])
                  ELSE None
    /\ deletedOk' = IF route = "delete" /\ o.status = 200
                    THEN deletedOk \cup {LastSegment(routePath(req.pathname))}
                    ELSE deletedOk
    /\ flushing' = o.flush

\* the running server handles one request to the end; the model sends no
\* add beyond its bounds
Handle(req, now, io) ==
    /\ ServedRoute(req) = "add" =>
           Len(AllRecords(db)) < MaxRecords /\ uuids < MaxRecords
    /\ Commit(req, ServedRoute(req),
              handleRequest(db, file, authToken, uuids, req, now, io))

\* a request as handleRequest reads it
Request(method, pathname, authorization, origin, text, body) ==
    [method |-> method, pathname |-> pathname, authorization |-> authorization,
     origin |-> origin, text |-> text, body |-> body]

\* the server takes the request of some client on the loopback interface
ServeText(method, pathname, authorization, origin, text, body, now, io) ==
    /\ running
    /\ Handle(Request(method, pathname, authorization, origin, text, body), now, io)
    /\ UNCHANGED <<authToken, tokenFile>>
    /\ UNCHANGED loopVars
    /\ UNCHANGED clientVars

\* the same, the text of the body being the JSON of `body`
Serve(method, pathname, authorization, origin, body, now, io) ==
    ServeText(method, pathname, authorization, origin, JsonText, body, now, io)

\* the header of the plugin's client: the token of the token file
Bearer == Some("Bearer " \o authToken)

Add(body, now, io) == Serve("POST", "/add", Bearer, None, body, now, io)

List(body) == Serve("POST", "/memories/list", Bearer, None, body, 1, OkIo)

Search(body) == Serve("POST", "/v1/search/memories", Bearer, None, body, 1, OkIo)

Delete(id, now, io) ==
    ServeText("DELETE", "/memories/" \o id, Bearer, None, NoText, EmptyBody, now, io)

Health == ServeText("GET", "/health", None, None, NoText, EmptyBody, 1, OkIo)

\* a POST whose body is not JSON, or is longer than the cap
Malformed(pathname, text) ==
    ServeText("POST", pathname, Bearer, None, text, EmptyBody, 1, OkIo)

\* SIGINT: server.close(); process.exit(0)
Shutdown ==
    /\ running
    /\ running' = FALSE
    /\ db' = EmptyDb
    /\ resp' = NoResponse
    /\ prevAdd' = None
    /\ flushing' = None
    /\ UNCHANGED <<authToken, tokenFile, file, uuids, deletedOk>>
    /\ UNCHANGED loopVars
    /\ UNCHANGED clientVars

\* main(): the token is loaded or created, the store is loaded
\* main(): the token, then the store, then the count of what it holds;
\* when the count throws the process ends before it listens
Start(fresh) ==
    /\ ~running
    /\ running' = HasMemories(loadDb(file))
    /\ authToken' = loadOrCreateAuthToken(tokenFile, fresh)
    /\ tokenFile' = IF loadOrCreateAuthToken(tokenFile, fresh) = fresh
                    THEN [exists |-> TRUE, text |-> fresh]
                    ELSE tokenFile
    /\ db' = IF HasMemories(loadDb(file)) THEN loadDb(file) ELSE EmptyDb
    /\ resp' = NoResponse
    /\ prevAdd' = None
    /\ UNCHANGED <<file, uuids, deletedOk, flushing>>
    /\ UNCHANGED loopVars
    /\ UNCHANGED clientVars

\* main() when fs.writeFileSync(AUTH_TOKEN_FILE, token) throws: the catch
\* of loadOrCreateAuthToken logs it and the new token is used unsaved
StartUnsaved(fresh) ==
    /\ ~running
    /\ ~(tokenFile.exists /\ Len(Trim(tokenFile.text)) >= 32)
    /\ running' = TRUE
    /\ authToken' = loadOrCreateAuthToken(tokenFile, fresh)
    /\ db' = loadDb(file)
    /\ resp' = NoResponse
    /\ prevAdd' = None
    /\ UNCHANGED <<tokenFile, file, uuids, deletedOk, flushing>>
    /\ UNCHANGED loopVars
    /\ UNCHANGED clientVars

\* SIGINT ends the process and main() runs again: what the process held in
\* memory is gone, the store is what loadDb reads
Restart(fresh) ==
    /\ running
    /\ running' = TRUE
    /\ authToken' = loadOrCreateAuthToken(tokenFile, fresh)
    /\ tokenFile' = IF loadOrCreateAuthToken(tokenFile, fresh) = fresh
                    THEN [exists |-> TRUE, text |-> fresh]
                    ELSE tokenFile
    /\ db' = loadDb(file)
    /\ resp' = NoResponse
    /\ prevAdd' = None
    /\ flushing' = None
    /\ UNCHANGED <<file, uuids, deletedOk>>
    /\ UNCHANGED loopVars
    /\ UNCHANGED clientVars

\* the first run of main() has generated `token` and found no snapshot
\* no request is in flight
InitLoop ==
    /\ pending = <<>>
    /\ microtasks = <<>>
    /\ serial = [db |-> EmptyDb, file |-> NoSnapshot, uuids |-> 0]

InitServer(token) ==
    /\ running = TRUE
    /\ authToken = token
    /\ tokenFile = [exists |-> TRUE, text |-> token]
    /\ db = EmptyDb
    /\ file = NoSnapshot
    /\ uuids = 0
    /\ resp = NoResponse
    /\ prevAdd = None
    /\ deletedOk = {}
    /\ flushing = None
    /\ InitLoop

\* no limiter, no session and no authentication flow yet
InitPlugin ==
    /\ limiter = None
    /\ hook = None
    /\ flow = None

InitClient ==
    /\ env = [SUPERMEMORY_API_URL |-> None, SUPERMEMORY_LOCAL |-> None]
    /\ client = None
    /\ sent = None
    /\ InitPlugin

(***************************************************************************)
(* Spec: the store through adds, deletes, lists, searches and restarts,    *)
(* every flush succeeding.                                                 *)
(***************************************************************************)
Init == InitServer(TokenA) /\ InitClient

\* the paths whose handlers read a body
BodyPaths == {"/add", "/v1/search/memories", "/memories/list"}

Next ==
    \/ \E body \in AddBodies : Add(body, 1, OkIo)
    \/ \E body \in ListBodies : List(body)
    \/ \E body \in SearchBodies : Search(body)
    \/ \E id \in DeleteIds, now \in Clock : Delete(id, now, OkIo)
    \/ \E pathname \in BodyPaths, text \in {BadText, BigText} : Malformed(pathname, text)
    \/ Health
    \/ Shutdown
    \/ \E fresh \in GeneratedTokens : Start(fresh)

Spec == Init /\ [][Next]_vars

(***************************************************************************)
(* SpecFlush: adds and deletes whose flush the operating system may fail   *)
(* or the end of the process may cut short, and the restarts after them.   *)
(***************************************************************************)
FlushBodies == {AddBody(Some(" alpha beta\nGamma"), t, None) : t \in TagInputs}

FlushIds == {generateId(i - 1) : i \in 1..MaxRecords}

NextFlush ==
    \/ \E body \in FlushBodies, io \in WriteOutcomes : Add(body, 1, io)
    \/ \E id \in FlushIds, io \in WriteOutcomes : Delete(id, 2, io)
    \/ Start(TokenA)
    \/ Restart(TokenA)

SpecFlush == Init /\ [][NextFlush]_vars

\* adds and deletes, new Date() returning any value of Clock at each
NextClock ==
    \/ \E body \in FlushBodies, now \in Clock : Add(body, now, OkIo)
    \/ \E id \in FlushIds, now \in Clock : Delete(id, now, OkIo)

SpecClock == Init /\ [][NextClock]_vars

(***************************************************************************)
(* SpecSearch: searches, with every kind of limit, on the stores that adds *)
(* and deletes leave.                                                      *)
(***************************************************************************)
ContentList == <<"alpha beta", "Alpha, gamma delta!", " alpha beta\nGamma">>

\* the store after an add of each of these contents, in order
RECURSIVE AddAll(_)
AddAll(contents) ==
    IF contents = <<>> THEN EmptyDb
    ELSE handleAdd(AddAll(SubSeq(contents, 1, Len(contents) - 1)),
                   AddBody(Some(contents[Len(contents)]), None, None),
                   Len(contents) - 1, 1).db

\* the store d after a DELETE of each of the first i ids that are in S
RECURSIVE DeleteIn(_, _, _)
DeleteIn(d, S, i) ==
    IF i = 0 THEN d
    ELSE IF i \in S
    THEN handleDeleteMemory(DeleteIn(d, S, i - 1), generateId(i - 1), 2).db
    ELSE DeleteIn(d, S, i - 1)

ContentSeqs == UNION {[1..n -> Contents] : n \in 0..MaxRecords}

\* the default tag after ManyRecords adds, of these contents in turn
BigStore ==
    [memories |->
        <<[tag |-> "default",
           list |-> [i \in 1..ManyRecords |->
                        NewRecord(AddBody(Some(ContentList[(i % 3) + 1]), None, None),
                                  generateId(i - 1), 1)]]>>]

SearchStores ==
    UNION {{DeleteIn(AddAll(cs), S, Len(cs)) : S \in SUBSET (1..Len(cs))} :
              cs \in ContentSeqs}
        \cup {BigStore, AddAll(ScenarioContents)}

LimitInputs == {None, Some(-1), Some(0), Some(1), Some(10), Some(51)}

SearchInputs ==
    {SearchBody(Some(q), None, l) : q \in Queries, l \in LimitInputs}
        \cup {SearchBody(Some(""), None, None)}

InitSearch ==
    /\ \E d \in SearchStores :
           /\ db = d
           /\ file = saveDb(NoSnapshot, d, OkIo)
           /\ uuids = Len(AllRecords(d))
    /\ running = TRUE
    /\ authToken = TokenA
    /\ tokenFile = [exists |-> TRUE, text |-> TokenA]
    /\ resp = NoResponse
    /\ prevAdd = None
    /\ deletedOk = {}
    /\ flushing = None
    /\ InitLoop
    /\ InitClient

NextSearch == \E body \in SearchInputs : Search(body)

SpecSearch == InitSearch /\ [][NextSearch]_vars

(***************************************************************************)
(* SpecProfile: profiles asked of stores that hold records of two tags,    *)
(* some of them soft-deleted, and of a store of many records.              *)
(***************************************************************************)
ProfileTags == {"proj1", "other"}

ProfileBody(tag, q) == JsonBody(None, tag, None, q, None, None)

\* the store after an add of each <<content, tag>>, in order
RECURSIVE AddTagged(_)
AddTagged(entries) ==
    IF entries = <<>> THEN EmptyDb
    ELSE handleAdd(AddTagged(SubSeq(entries, 1, Len(entries) - 1)),
                   AddBody(Some(entries[Len(entries)][1]),
                           Some(entries[Len(entries)][2]), None),
                   Len(entries) - 1, 1).db

EntrySeqs == UNION {[1..n -> ProfileContents \X ProfileTags] : n \in 0..MaxRecords}

\* tag proj1 after ManyRecords adds and the delete of the k-th of them (0:
\* of none), and tag other after one add
ManyStore(k) ==
    [memories |->
        <<[tag |-> "proj1",
           list |-> [i \in 1..ManyRecords |->
                        [NewRecord(AddBody(Some(ManyContent(i)), None, None),
                                   generateId(i - 1), 1)
                            EXCEPT !.deleted = (i = k)]]],
          [tag |-> "other",
           list |-> <<NewRecord(AddBody(Some("likes small commits"), None, None),
                                generateId(ManyRecords), 1)>>]>>]

ProfileStores ==
    UNION {{DeleteIn(AddTagged(es), S, Len(es)) : S \in SUBSET (1..Len(es))} :
              es \in EntrySeqs}
        \cup {ManyStore(0), ManyStore(ManyRecords)}

ProfileInputs ==
    {ProfileBody(tag, q) : tag \in {None, Some("proj1"), Some("other")},
                           q \in {None, Some("small commits")}}

InitProfile ==
    /\ \E d \in ProfileStores :
           /\ db = d
           /\ file = saveDb(NoSnapshot, d, OkIo)
           /\ uuids = Len(AllRecords(d))
    /\ running = TRUE
    /\ authToken = TokenA
    /\ tokenFile = [exists |-> TRUE, text |-> TokenA]
    /\ resp = NoResponse
    /\ prevAdd = None
    /\ deletedOk = {}
    /\ flushing = None
    /\ InitLoop
    /\ InitClient

Profile(body) == Serve("POST", "/profile", Bearer, None, body, 1, OkIo)

NextProfile == \E body \in ProfileInputs : Profile(body)

SpecProfile == InitProfile /\ [][NextProfile]_vars

(***************************************************************************)
(* SpecShape: starts on a snapshot file that something else wrote, and the *)
(* requests a server that came up is sent.                                 *)
(***************************************************************************)
\* JSON texts that are no store
OtherShapes == {"{}", "[]", "null"}

\* no file, a text that does not parse, and the texts that are no store
ShapeFiles ==
    {NoSnapshot, [exists |-> TRUE, lines |-> <<[k |-> "open", v |-> ""]>>]}
        \cup {[exists |-> TRUE, lines |-> <<[k |-> "value", v |-> x]>>] : x \in OtherShapes}

InitShape ==
    /\ running = FALSE
    /\ authToken = ""
    /\ tokenFile = [exists |-> TRUE, text |-> TokenA]
    /\ db = EmptyDb
    /\ \/ file \in ShapeFiles
       \/ \E es \in EntrySeqs : file = saveDb(NoSnapshot, AddTagged(es), OkIo)
    /\ uuids = MaxRecords
    /\ resp = NoResponse
    /\ prevAdd = None
    /\ deletedOk = {}
    /\ flushing = None
    /\ InitLoop
    /\ InitClient

NextShape ==
    \/ Start(TokenA)
    \/ \E id \in FlushIds : Delete(id, 2, OkIo)
    \/ List(ListBody(None, None))
    \/ Search(SearchBody(Some("small commits"), Some("proj1"), None))
    \/ \E tag \in ProfileTags : Profile(ProfileBody(Some(tag), None))
    \/ Health
    \/ Shutdown

SpecShape == InitShape /\ [][NextShape]_vars

(***************************************************************************)
(* SpecRate: the RateLimiter of the clients (local-client.js 43-91, the    *)
(* same class in part_006 19-71) under a clock that never goes back.       *)
(* limiter.rl is the object, limiter.now what Date.now() last returned,    *)
(* limiter.granted the times of all the checks that returned, limiter.last *)
(* the last check: its time and whether it returned.                       *)
(***************************************************************************)
\* the arguments the limiter is constructed with
MaxCalls == 2

WindowMs == 2

\* checks made one every WindowMs before the clock steps freely
WarmChecks == 99

\* checks made with the clock stepping freely
MaxChecks == 6

\* constructor(maxCalls, windowMs)
RateLimiter(maxCalls, windowMs) ==
    [maxCalls |-> maxCalls, windowMs |-> windowMs, calls |-> <<>>, firstValidIndex |-> 0]

\* the while loop of check(): firstValidIndex once it stops (calls[i] of the
\* code is calls[i + 1] here)
Scan(calls, firstValidIndex, windowStart) ==
    CHOOSE i \in firstValidIndex..Len(calls) :
        /\ i = Len(calls) \/ calls[i + 1] >= windowStart
        /\ \A h \in firstValidIndex..(i - 1) : calls[h + 1] < windowStart

\* a compaction that drops the first valid call too
CompactedShort(rl) ==
    IF Len(rl.calls) > 100 /\ 2 * (Len(rl.calls) - rl.firstValidIndex) < Len(rl.calls)
    THEN [rl EXCEPT !.calls = SubSeq(rl.calls, rl.firstValidIndex + 2, Len(rl.calls)),
                    !.firstValidIndex = 0]
    ELSE rl

\* calls.length > 100 && validCallCount / calls.length < 0.5: calls =
\* calls.slice(firstValidIndex), firstValidIndex = 0
Compacted(rl) ==
    IF Len(rl.calls) > 100 /\ 2 * (Len(rl.calls) - rl.firstValidIndex) < Len(rl.calls)
    THEN [rl EXCEPT !.calls = SubSeq(rl.calls, rl.firstValidIndex + 1, Len(rl.calls)),
                    !.firstValidIndex = 0]
    ELSE rl

\* check() once the scan is done, validCallCount being the count it made
\* before the compaction
AfterScan(rl, validCallCount, now) ==
    IF validCallCount >= rl.maxCalls
    THEN [rl |-> Compacted(rl), threw |-> TRUE]
    ELSE [rl |-> [Compacted(rl) EXCEPT !.calls = Append(@, now)], threw |-> FALSE]

\* check() with the index the scan stopped at
Scanned(rl, i, now) == AfterScan([rl EXCEPT !.firstValidIndex = i], Len(rl.calls) - i, now)

\* RateLimiter.check() when Date.now() returns `now`
check(rl, now) == Scanned(rl, Scan(rl.calls, rl.firstValidIndex, now - rl.windowMs), now)

\* what the clock may advance by before a check
ClockSteps(l) ==
    IF Len(l.granted) < l.warm THEN {l.rl.windowMs} ELSE {0, 1, l.rl.windowMs + 1}

InitRate ==
    /\ InitServer(TokenA)
    /\ env = [SUPERMEMORY_API_URL |-> None, SUPERMEMORY_LOCAL |-> None]
    /\ client = None
    /\ sent = None
    /\ hook = None
    /\ flow = None
    /\ \E warm \in {0, WarmChecks} :
           limiter = [rl |-> RateLimiter(MaxCalls, WindowMs), now |-> 0, granted |-> <<>>,
                      last |-> None, warm |-> warm, n |-> 0]

\* one call of check(), the clock having advanced by dt
Check(dt) ==
    /\ limiter.n < limiter.warm + MaxChecks
    /\ dt \in ClockSteps(limiter)
    /\ limiter' = [rl |-> check(limiter.rl, limiter.now + dt).rl,
                   now |-> limiter.now + dt,
                   granted |-> IF check(limiter.rl, limiter.now + dt).threw
                               THEN limiter.granted
                               ELSE Append(limiter.granted, limiter.now + dt),
                   last |-> Some(<<limiter.now + dt,
                                   ~check(limiter.rl, limiter.now + dt).threw>>),
                   warm |-> limiter.warm,
                   n |-> limiter.n + 1]
    /\ UNCHANGED <<env, client, sent, hook, flow>>
    /\ UNCHANGED serverVars

NextRate == \E dt \in 0..(WindowMs + 1) : Check(dt)

SpecRate == InitRate /\ [][NextRate]_vars

(***************************************************************************)
(* The transcript formatter (part_004) and the Stop hook that calls it     *)
(* (context-hook.js 112-190).  hook.lines is the transcript file, a JSON   *)
(* entry a line, appended to by the session; hook.txt and hook.json are    *)
(* the tracker files <session>.txt and <session>.json, kept apart: the two *)
(* formatters run side by side, each on its own tracker directory.  An     *)
(* offset counts lines: the session appends whole lines.  The messages     *)
(* sent here hold text and thinking blocks.                                *)
(***************************************************************************)
MaxEntries == 3

\* text.replace(/<tag>[\s\S]*?<\/tag>/g, ''): open and close are the two tags
RECURSIVE RemoveTagged(_, _, _)
RemoveTagged(text, open, close) ==
    IF IndexFrom(text, open, 1) = 0
           \/ IndexFrom(text, close, IndexFrom(text, open, 1) + Len(open)) = 0
    THEN text
    ELSE SubSeq(text, 1, IndexFrom(text, open, 1) - 1)
             \o RemoveTagged(SubSeq(text,
                                    IndexFrom(text, close,
                                              IndexFrom(text, open, 1) + Len(open))
                                        + Len(close),
                                    Len(text)),
                             open, close)

cleanContent(text) ==
    Trim(RemoveTagged(RemoveTagged(text, "<system-reminder>", "</system-reminder>"),
                      "<supermemory-context>", "</supermemory-context>"))

\* parts.join(sep)
RECURSIVE Join(_, _)
Join(parts, sep) ==
    IF Len(parts) = 0 THEN ""
    ELSE IF Len(parts) = 1 THEN parts[1]
    ELSE parts[1] \o sep \o Join(SubSeq(parts, 2, Len(parts)), sep)

\* the part a text gives once cleaned, none when nothing is left
RolePart(role, cleaned) ==
    IF cleaned = "" THEN <<>>
    ELSE <<"[role:" \o role \o "]\n" \o cleaned \o "\n[" \o role \o ":end]">>

\* the loop over the blocks of a message: a text block gives its part, a
\* thinking block none
RECURSIVE BlockParts(_, _, _)
BlockParts(blocks, role, i) ==
    IF i > Len(blocks) THEN <<>>
    ELSE (IF blocks[i].type = "text" /\ blocks[i].text # ""
          THEN RolePart(role, cleanContent(blocks[i].text))
          ELSE <<>>)
             \o BlockParts(blocks, role, i + 1)

\* a message's content is <<"string", text>> or <<"array", blocks>>; None
\* stands for null
formatUserMessage(message) ==
    IF message.content[1] = "string"
    THEN (IF message.content[2] = "" \/ RolePart("user", cleanContent(message.content[2])) = <<>>
          THEN None
          ELSE Some(Join(RolePart("user", cleanContent(message.content[2])), "\n\n")))
    ELSE IF BlockParts(message.content[2], "user", 1) = <<>> THEN None
    ELSE Some(Join(BlockParts(message.content[2], "user", 1), "\n\n"))

formatAssistantMessage(message) ==
    IF message.content[1] = "string" THEN None
    ELSE IF BlockParts(message.content[2], "assistant", 1) = <<>> THEN None
    ELSE Some(Join(BlockParts(message.content[2], "assistant", 1), "\n\n"))

formatEntry(entry) ==
    IF entry.type = "user" THEN OrElse(formatUserMessage(entry.message), "")
    ELSE IF entry.type = "assistant" THEN OrElse(formatAssistantMessage(entry.message), "")
    ELSE ""

IsTurn(entry) == entry.type = "user" \/ entry.type = "assistant"

\* a line of the transcript file: [ok |-> whether JSON.parse takes it,
\* entry |-> what it returns then]
LineParses(line) == line.ok

\* the entries of the lines that JSON.parse takes, in order; the others are
\* passed over
EntriesOf(lines) ==
    [i \in 1..Len(SelectSeq(lines, LineParses)) |-> SelectSeq(lines, LineParses)[i].entry]

\* parseTranscript(transcriptPath)
parseTranscript(lines) == EntriesOf(lines)

\* the place of the first entry that holds the uuid, 0 for none
FirstWithUuid(entries, uuid) ==
    IF \E i \in 1..Len(entries) : entries[i].uuid = uuid
    THEN CHOOSE i \in 1..Len(entries) :
             entries[i].uuid = uuid /\ \A h \in 1..(i - 1) : entries[h].uuid # uuid
    ELSE 0

\* the loop taking the entry of the uuid with those after it
EntriesFrom(entries, uuid, found) ==
    IF found = 0 THEN <<>>
    ELSE SelectSeq(SubSeq(entries, found, Len(entries)), IsTurn)

\* the loop of getEntriesSinceLastCapture: nothing before the uuid is found
EntriesAfter(entries, uuid, found) ==
    IF found = 0 THEN <<>>
    ELSE SelectSeq(SubSeq(entries, found + 1, Len(entries)),
                   LAMBDA e : e.uuid # uuid /\ IsTurn(e))

getEntriesSinceLastCapture(entries, lastCapturedUuid) ==
    IF lastCapturedUuid = None \/ lastCapturedUuid = Some("")
    THEN SelectSeq(entries, IsTurn)
    ELSE EntriesAfter(entries, lastCapturedUuid[1], FirstWithUuid(entries, lastCapturedUuid[1]))

\* the formatted parts of the new entries, those that are not empty
RECURSIVE EntryParts(_, _)
EntryParts(newEntries, i) ==
    IF i > Len(newEntries) THEN <<>>
    ELSE (IF formatEntry(newEntries[i]) = "" THEN <<>> ELSE <<formatEntry(newEntries[i])>>)
             \o EntryParts(newEntries, i + 1)

\* the text of a turn
TurnText(newEntries) ==
    Join(<<"[turn:start timestamp=\"" \o newEntries[1].timestamp \o "\"]">>
             \o EntryParts(newEntries, 1) \o <<"[turn:end]">>,
         "\n\n")

\* what a run returns and the tracker it leaves: `entries` are the uuids of
\* the new entries the text was made of
Returned(result, tracker, newEntries) ==
    [result |-> result, tracker |-> tracker,
     entries |-> [i \in 1..Len(newEntries) |-> newEntries[i].uuid]]

\* formatNewEntries from `newEntries` on
FormatNew(newEntries, tracker) ==
    IF Len(newEntries) = 0 THEN Returned(None, tracker, <<>>)
    ELSE IF Len(TurnText(newEntries)) < 100 THEN Returned(None, tracker, <<>>)
    ELSE Returned(Some(TurnText(newEntries)), Some(newEntries[Len(newEntries)].uuid),
                  newEntries)

\* formatNewEntries(transcriptPath, sessionId), the tracker file holding txt
formatNewEntries(lines, txt) ==
    IF Len(parseTranscript(lines)) = 0 THEN Returned(None, txt, <<>>)
    ELSE FormatNew(getEntriesSinceLastCapture(parseTranscript(lines), txt), txt)

\* parseTranscriptIncremental(transcriptPath, startOffset)
parseTranscriptIncremental(lines, startOffset) ==
    [entries |-> EntriesOf(SubSeq(lines,
                                  (IF startOffset > Len(lines) THEN 0 ELSE startOffset) + 1,
                                  Len(lines))),
     endOffset |-> Len(lines)]

\* formatNewEntriesAsync once the transcript is read from the offset
FormatNewAsync(parsed, newEntries, tracker) ==
    IF Len(newEntries) = 0
    THEN Returned(None, [uuid |-> tracker.uuid, offset |-> parsed.endOffset], <<>>)
    ELSE IF Len(TurnText(newEntries)) < 100 THEN Returned(None, tracker, <<>>)
    ELSE Returned(Some(TurnText(newEntries)),
                  [uuid |-> Some(newEntries[Len(newEntries)].uuid),
                   offset |-> parsed.endOffset],
                  newEntries)

\* formatNewEntriesAsync(transcriptPath, sessionId), getTrackerData giving
\* `tracker`
AsyncFrom(parsed, tracker) ==
    IF Len(parsed.entries) = 0 THEN Returned(None, tracker, <<>>)
    ELSE FormatNewAsync(parsed, getEntriesSinceLastCapture(parsed.entries, tracker.uuid),
                        tracker)

formatNewEntriesAsync(lines, tracker) ==
    AsyncFrom(parseTranscriptIncremental(lines, tracker.offset), tracker)

(***************************************************************************)
(* SpecHook: a session appends to its transcript while the Stop hook and   *)
(* the incremental formatter run on it.  hook.runs are the runs of         *)
(* formatNewEntries that returned a text, hook.stored the entries of the   *)
(* texts addMemory stored, hook.last what happened last.                   *)
(***************************************************************************)
\* the messages a session writes
MessageInputs ==
    [userShort |-> [type |-> "user", message |-> [content |-> <<"string", "ok">>]],
     userLong |-> [type |-> "user",
                   message |-> [content |->
                       <<"string",
                         "<system-reminder>be brief</system-reminder> please fix the login bug">>]],
     assistantText |-> [type |-> "assistant",
                        message |-> [content |->
                            <<"array", <<[type |-> "thinking", text |-> "which file"],
                                         [type |-> "text", text |-> "The login bug is fixed."]>> >>]],
     assistantThinking |-> [type |-> "assistant",
                            message |-> [content |->
                                <<"array", <<[type |-> "thinking", text |-> "hm"]>> >>]],
     system |-> [type |-> "system", message |-> [content |-> <<"string", "compacted">>]],
     garbage |-> [type |-> "", message |-> [content |-> <<"string", "">>]]]

\* the line the session writes for a message, n lines being there; the
\* line of `garbage` is no JSON
LineOf(kind, n) ==
    [ok |-> kind # "garbage",
     entry |-> [uuid |-> "e" \o ToString(n + 1),
                timestamp |-> "2026-01-01T00:00:00.000Z",
                type |-> MessageInputs[kind].type,
                message |-> MessageInputs[kind].message]]

InitHook ==
    /\ InitServer(TokenA)
    /\ env = [SUPERMEMORY_API_URL |-> None, SUPERMEMORY_LOCAL |-> None]
    /\ client = None
    /\ sent = None
    /\ limiter = None
    /\ flow = None
    /\ hook = [lines |-> <<>>, txt |-> None, json |-> [uuid |-> None, offset |-> 0],
               runs |-> <<>>, stored |-> {}, async |-> <<>>, last |-> "start"]

\* the session appends a line to its transcript
AppendLine(kind) ==
    /\ Len(hook.lines) < MaxEntries
    /\ hook' = [hook EXCEPT !.lines = Append(@, LineOf(kind, Len(hook.lines))),
                            !.last = "append"]
    /\ UNCHANGED <<env, client, sent, limiter, flow>>
    /\ UNCHANGED serverVars

\* the Stop hook: formatNewEntries, then client.addMemory of what it
\* returned; `ok` is whether addMemory returns, its throw is caught and logged
StopHook(ok) ==
    /\ hook.last = "append"
    /\ hook' = [hook EXCEPT
                   !.txt = formatNewEntries(hook.lines, hook.txt).tracker,
                   !.runs = IF formatNewEntries(hook.lines, hook.txt).result = None THEN @
                            ELSE Append(@, formatNewEntries(hook.lines, hook.txt).entries),
                   !.stored = IF formatNewEntries(hook.lines, hook.txt).result = None \/ ~ok
                              THEN @
                              ELSE @ \cup {formatNewEntries(hook.lines, hook.txt).entries[i] :
                                              i \in 1..Len(formatNewEntries(hook.lines,
                                                                           hook.txt).entries)},
                   !.last = IF ok THEN "stop" ELSE "stop failed"]
    /\ UNCHANGED <<env, client, sent, limiter, flow>>
    /\ UNCHANGED serverVars

\* a run of formatNewEntriesAsync
CaptureAsync ==
    /\ hook.last # "async"
    /\ hook' = [hook EXCEPT
                   !.json = formatNewEntriesAsync(hook.lines, hook.json).tracker,
                   !.async = formatNewEntriesAsync(hook.lines, hook.json).entries,
                   !.last = "async"]
    /\ UNCHANGED <<env, client, sent, limiter, flow>>
    /\ UNCHANGED serverVars

NextHook ==
    \/ \E kind \in DOMAIN MessageInputs : AppendLine(kind)
    \/ \E ok \in BOOLEAN : StopHook(ok)

SpecHook == InitHook /\ [][NextHook]_vars

\* the same session, captured by the incremental formatter
NextAsync ==
    \/ \E kind \in DOMAIN MessageInputs : AppendLine(kind)
    \/ CaptureAsync

SpecAsync == InitHook /\ [][NextAsync]_vars

(***************************************************************************)
(* SpecAuthFlow: one call of startAuthFlow.  flow.settled is the outcome   *)
(* of its promise, flow.saving the callback handlers awaiting              *)
(* saveCredentials, flow.credentials the apiKey in the credentials file,   *)
(* flow.written the keys the handlers wrote, flow.now the time since the   *)
(* call.  A connection a request came on may stay open (keep-alive) when   *)
(* server.close() has stopped the listening.                               *)
(***************************************************************************)
AUTH_TIMEOUT == 25000
MAX_AUTH_REQUESTS == 10

\* the requests of a flow, the handlers awaiting at a time, the clock's step
MaxRequests == 12
MaxSaving == 2
TickMs == 12500

\* the apikey parameter of a request
ApiKeys == {None, Some("sm_a"), Some("sm_b"), Some("bad")}
Pathnames == {"/callback", "/favicon.ico"}

InitAuthFlow ==
    /\ InitServer(TokenA)
    /\ env = [SUPERMEMORY_API_URL |-> None, SUPERMEMORY_LOCAL |-> None]
    /\ client = None
    /\ sent = None
    /\ limiter = None
    /\ hook = None
    /\ flow = [server |-> "starting", resolved |-> FALSE, requestCount |-> 0,
               settled |-> None, settledAt |-> 0, now |-> 0, timer |-> FALSE,
               saving |-> <<>>, credentials |-> None, written |-> {},
               keepAlive |-> FALSE]

\* server.close()
Closed(server) == IF server = "failed" THEN server ELSE "closed"

\* resolve or reject of the promise: the first one settles it
SettleFlow(f, how, value) ==
    IF f.settled # None THEN f
    ELSE [f EXCEPT !.settled = Some(<<how, value>>), !.settledAt = f.now]

\* if (!resolved) { resolved = true; server.close(); reject(...) }
RejectOnce(f, message) ==
    IF f.resolved THEN f
    ELSE SettleFlow([f EXCEPT !.resolved = TRUE, !.server = Closed(f.server)], "reject", message)

\* the handler of a request up to its first await
Handled(f, pathname, apiKey) ==
    IF f.requestCount > MAX_AUTH_REQUESTS THEN RejectOnce(f, "Too many auth requests")
    ELSE IF pathname # "/callback" THEN f
    ELSE IF apiKey # None /\ StartsWith(apiKey[1], "sm_")
    THEN [f EXCEPT !.saving = Append(@, [apiKey |-> apiKey[1], late |-> f.settled # None])]
    ELSE RejectOnce(f, "Invalid API key format")

StepAuth(f) ==
    /\ flow' = f
    /\ UNCHANGED <<env, client, sent, limiter, hook>>
    /\ UNCHANGED serverVars

\* server.listen succeeds
Listening ==
    /\ flow.server = "starting"
    /\ StepAuth([flow EXCEPT !.server = "listening"])

\* server.on('error'): the port is taken
ListenError ==
    /\ flow.server = "starting"
    /\ StepAuth(IF flow.resolved THEN [flow EXCEPT !.server = "failed"]
                ELSE SettleFlow([flow EXCEPT !.server = "failed", !.resolved = TRUE],
                            "reject", "Failed to start auth server"))

\* a request arrives, on a new connection or on one that stayed open
AuthRequest(pathname, apiKey, kept, keep) ==
    /\ IF kept THEN flow.keepAlive ELSE flow.server = "listening"
    /\ flow.server \in {"listening", "closed"}
    /\ flow.requestCount < MaxRequests
    /\ Len(flow.saving) < MaxSaving
    /\ flow.now <= AUTH_TIMEOUT
    /\ StepAuth(Handled([flow EXCEPT !.requestCount = @ + 1,
                                     !.keepAlive = keep],
                        pathname, apiKey))

\* the saveCredentials a handler awaits is over: the file written if `ok`,
\* the error caught and logged if not; then the rest of the handler
SaveDone(i, ok) ==
    /\ i \in 1..Len(flow.saving)
    /\ StepAuth(SettleFlow([flow EXCEPT
                           !.saving = SubSeq(@, 1, i - 1) \o SubSeq(@, i + 1, Len(@)),
                           !.credentials = IF ok THEN Some(flow.saving[i].apiKey) ELSE @,
                           !.written = IF ok THEN @ \cup {flow.saving[i]} ELSE @,
                           !.resolved = TRUE,
                           !.server = Closed(flow.server)],
                       "resolve", flow.saving[i].apiKey))

\* the setTimeout callback, due AUTH_TIMEOUT after the call
Timeout ==
    /\ flow.server # "starting"
    /\ ~flow.timer
    /\ flow.now = AUTH_TIMEOUT
    /\ StepAuth(RejectOnce([flow EXCEPT !.timer = TRUE], "AUTH_TIMEOUT"))

\* time passes, the timer firing when it is due
Tick ==
    /\ flow.server # "starting"
    /\ flow.now < AUTH_TIMEOUT \/ flow.timer
    /\ flow.now <= AUTH_TIMEOUT
    /\ StepAuth([flow EXCEPT !.now = IF ~flow.timer /\ @ + TickMs > AUTH_TIMEOUT
                                    THEN AUTH_TIMEOUT ELSE @ + TickMs])

NextAuthFlow ==
    \/ Listening
    \/ ListenError
    \/ \E pathname \in Pathnames, apiKey \in ApiKeys, kept \in BOOLEAN, keep \in BOOLEAN :
           AuthRequest(pathname, apiKey, kept, keep)
    \/ \E i \in 1..MaxSaving, ok \in BOOLEAN : SaveDone(i, ok)
    \/ Timeout
    \/ Tick

SpecAuthFlow == InitAuthFlow /\ [][NextAuthFlow]_vars

(***************************************************************************)
(* SpecKey: the key of the plugin.  flow.settings is the apiKey of the     *)
(* settings, flow.envKey the SUPERMEMORY_CC_API_KEY of the environment,    *)
(* flow.credentials the lines of the credentials file, flow.result what    *)
(* the last getApiKey gave, flow.awaited what the last async getApiKey     *)
(* gave when awaited, flow.clientKey what the SessionStart hook gave to    *)
(* its client.                                                             *)
(***************************************************************************)
\* a string that an `if` takes as true
Truthy(s) == s # None /\ s[1] # ""

Null == [null |-> TRUE]
Promise(v) == [promise |-> v]

\* JSON.stringify(data, null, 2) of the credentials, line by line
StringifyCredentials(data) ==
    <<[k |-> "open", v |-> ""], [k |-> "apiKey", v |-> data.apiKey],
      [k |-> "savedAt", v |-> data.savedAt], [k |-> "close", v |-> ""]>>

\* JSON.parse of such lines: the members of the object, or a SyntaxError
ParseCredentials(lines) ==
    IF /\ Len(lines) >= 2
       /\ lines[1].k = "open"
       /\ lines[Len(lines)].k = "close"
       /\ \A i \in 2..(Len(lines) - 1) : lines[i].k \notin {"open", "close"}
    THEN [ok |-> TRUE,
          members |-> {lines[i].k : i \in 2..(Len(lines) - 1)},
          apiKey |-> IF \E i \in 2..(Len(lines) - 1) : lines[i].k = "apiKey"
                     THEN Some(lines[CHOOSE i \in 2..(Len(lines) - 1) :
                                         /\ lines[i].k = "apiKey"
                                         /\ \A j \in (i + 1)..(Len(lines) - 1) :
                                                lines[j].k # "apiKey"].v)
                     ELSE None]
    ELSE [ok |-> FALSE, members |-> {}, apiKey |-> None]

NoCredentials == [exists |-> FALSE, lines |-> <<>>]

\* saveCredentials(apiKey), the clock reading `now`
saveCredentials(apiKey, now) ==
    [exists |-> TRUE, lines |-> StringifyCredentials([apiKey |-> apiKey, savedAt |-> now])]

\* what the promise of loadCredentials() resolves with
LoadedCredentials(credentials) ==
    IF credentials.exists /\ ParseCredentials(credentials.lines).ok
          /\ Truthy(ParseCredentials(credentials.lines).apiKey)
    THEN [apiKey |-> ParseCredentials(credentials.lines).apiKey[1]]
    ELSE Null

\* loadCredentials(): an async function returns a promise
loadCredentials(credentials) == Promise(LoadedCredentials(credentials))

\* credentials?.apiKey
OptionalApiKey(value) == IF "apiKey" \in DOMAIN value THEN Some(value.apiKey) ELSE None

\* getApiKey(settings) once the settings and the environment gave no key
KeyOfCredentials(value) ==
    IF Truthy(OptionalApiKey(value)) THEN [returns |-> OptionalApiKey(value)[1]]
    ELSE [throws |-> "NO_API_KEY"]

KeyOfSettings(settings, envKey, value) ==
    IF Truthy(settings) THEN [returns |-> settings[1]]
    ELSE IF Truthy(envKey) THEN [returns |-> envKey[1]]
    ELSE KeyOfCredentials(value)

\* getApiKey(settings) that calls loadCredentials()
getApiKey(settings, envKey, credentials) ==
    KeyOfSettings(settings, envKey, loadCredentials(credentials))

\* async getApiKey(settings) that awaits loadCredentials(): what its promise
\* settles with
getApiKeyAsync(settings, envKey, credentials) ==
    Promise(KeyOfSettings(settings, envKey, loadCredentials(credentials).promise))

\* the keys of the settings and of the environment
SettingsKeys == {None, Some(""), Some("sm_settings")}
EnvKeys == {None, Some(""), Some("sm_env")}
SavedKeys == {"sm_a", "sm_b", ""}

InitKey ==
    /\ InitServer(TokenA)
    /\ env = [SUPERMEMORY_API_URL |-> None, SUPERMEMORY_LOCAL |-> None]
    /\ client = None
    /\ sent = None
    /\ limiter = None
    /\ hook = None
    /\ \E settings \in SettingsKeys, envKey \in EnvKeys :
           flow = [settings |-> settings, envKey |-> envKey, credentials |-> NoCredentials,
                   saved |-> None, result |-> None, awaited |-> None,
                   clientKey |-> None]

StepKey(f) ==
    /\ flow' = f
    /\ UNCHANGED <<env, client, sent, limiter, hook>>
    /\ UNCHANGED serverVars

\* saveCredentials(apiKey) returns; `whole` is false when the process ends
\* in the middle of writeFile
SaveCredentials(apiKey, now, whole) ==
    StepKey([flow EXCEPT
                !.credentials = IF whole THEN saveCredentials(apiKey, now)
                                ELSE [exists |-> TRUE,
                                      lines |-> SubSeq(saveCredentials(apiKey, now).lines, 1, 2)],
                !.saved = IF whole THEN Some(apiKey) ELSE None,
                !.result = None, !.awaited = None, !.clientKey = None])

\* clearCredentials()
ClearCredentials ==
    /\ flow.credentials.exists
    /\ StepKey([flow EXCEPT !.credentials = NoCredentials, !.saved = None,
                            !.result = None, !.awaited = None, !.clientKey = None])

\* a call of getApiKey(settings)
GetApiKey ==
    StepKey([flow EXCEPT !.result = Some(getApiKey(flow.settings, flow.envKey,
                                                   flow.credentials))])

\* an awaited call of the async getApiKey(settings)
GetApiKeyAsync ==
    StepKey([flow EXCEPT !.awaited = Some(getApiKeyAsync(flow.settings, flow.envKey,
                                                         flow.credentials).promise)])

\* the SessionStart hook: apiKey = getApiKey(settings) in a try, the auth
\* flow in its catch, then new SupermemoryClient(apiKey); `async` is whether
\* the settings module is the one with the async getApiKey
SessionStart(async) ==
    StepKey([flow EXCEPT
                !.clientKey =
                    IF async
                    THEN Some([value |-> "a promise"])
                    ELSE IF "returns" \in DOMAIN getApiKey(flow.settings, flow.envKey,
                                                           flow.credentials)
                    THEN Some([value |-> getApiKey(flow.settings, flow.envKey,
                                                   flow.credentials).returns])
                    ELSE Some([value |-> "startAuthFlow"])])

NextKey ==
    \/ \E apiKey \in SavedKeys, now \in Clock, whole \in BOOLEAN :
           SaveCredentials(apiKey, now, whole)
    \/ ClearCredentials
    \/ GetApiKey
    \/ GetApiKeyAsync
    \/ \E async \in BOOLEAN : SessionStart(async)

SpecKey == InitKey /\ [][NextKey]_vars

(***************************************************************************)
(* SpecScore: calculateScore on its own, applied to a pair of token        *)
(* sequences.  resp.req holds the pair, resp.body the number returned.     *)
(***************************************************************************)
MaxTokens == 3

\* tokenize yields words of more than two characters
TokenInputs == {"alpha", "beta", "gamma"}

TokenSeqs == UNION {[1..n -> TokenInputs] : n \in 0..MaxTokens}

InitScore ==
    /\ \E queryTokens \in TokenSeqs, docTokens \in TokenSeqs :
           resp = [NoResponse EXCEPT !.req = Some(<<queryTokens, docTokens>>)]
    /\ running = FALSE
    /\ authToken = ""
    /\ tokenFile = [exists |-> FALSE, text |-> ""]
    /\ db = EmptyDb
    /\ file = NoSnapshot
    /\ uuids = 0
    /\ prevAdd = None
    /\ deletedOk = {}
    /\ flushing = None
    /\ InitLoop
    /\ InitClient

\* one call of calculateScore
Score ==
    /\ resp.route = "none"
    /\ resp' = [resp EXCEPT !.route = "score",
                            !.body = [score |-> calculateScore(resp.req[1][1], resp.req[1][2])]]
    /\ UNCHANGED <<running, authToken, tokenFile, db, file, uuids, prevAdd,
                   deletedOk, flushing>>
    /\ UNCHANGED loopVars
    /\ UNCHANGED clientVars

NextScore == Score

SpecScore == InitScore /\ [][NextScore]_vars

(***************************************************************************)
(* SpecChunks: requests in flight together.  Node runs one callback at a   *)
(* time: http calls handleRequest when the headers of a request are in,    *)
(* the data and end events of parseBody come one by one in the order the   *)
(* network delivers them, and the continuation of an await runs as a       *)
(* microtask, before the event loop takes its next event.                  *)
(***************************************************************************)
\* the event loop, were it to take events with continuations still queued
Busy == TRUE

\* the event loop takes its next event once the microtask queue is drained
Idle == microtasks = <<>>

\* the store, file and id count an outcome leaves, n ids being out before
After(o, n) == [db |-> o.db, file |-> o.file, uuids |-> IF o.uuid THEN n + 1 ELSE n]

\* the try block of handleRequest, run on the store of `serial`
Serially(req) ==
    After(Routed(serial.db, serial.file, serial.uuids, req, 1, OkIo, Route(req),
                 getCorsOrigin(req.origin)),
          serial.uuids)

\* a body is read whatever the auth check said
ReadsBodyUnchecked(req) == Route(req) \in {"add", "profile", "search", "list"}

\* handleRequest gets to `await parseBody(req)`: the auth check has passed
\* and the route is one that reads the body
ReadsBody(req) ==
    /\ Route(req) \in {"add", "profile", "search", "list"}
    /\ AuthOutcome(req.authorization, authToken) = "ok"

\* handleRequest is called for a request whose body comes in `chunks`: up to
\* `await parseBody(req)` for a route that reads the body, to its end for
\* every other request
Arrived(req, chunks) ==
    IF ReadsBody(req)
    THEN /\ Len(AllRecords(db)) + Len(pending) < MaxRecords
         /\ uuids + Len(pending) < MaxRecords
         /\ pending' = Append(pending, [req |-> req, left |-> chunks,
                                        settled |-> FALSE, overlapped |-> FALSE])
         /\ UNCHANGED <<running, db, file, uuids, resp, prevAdd, deletedOk, flushing,
                        microtasks, serial>>
    ELSE /\ Handle(req, 1, OkIo)
         /\ serial' = After(handleRequest(serial.db, serial.file, authToken,
                                          serial.uuids, req, 1, OkIo),
                            serial.uuids)
         /\ UNCHANGED <<pending, microtasks>>

Arrive(method, pathname, authorization, customId, chunks, wellFormed) ==
    /\ running
    /\ Idle
    /\ Len(pending) + Len(microtasks) < MaxRecords
    /\ Arrived(Request(method, pathname, authorization, None, <<0, wellFormed>>,
                       AddBody(Some("alpha beta"), None, customId)),
               chunks)
    /\ UNCHANGED <<authToken, tokenFile>>
    /\ UNCHANGED clientVars

\* the entry of a request after its next chunk: data += chunk
Received(entry) ==
    [entry EXCEPT !.req.text[1] = @ + Head(entry.left), !.left = Tail(entry.left)]

\* the promise of entry i is settled: its continuation is queued, and the
\* other requests in flight have seen a request complete
Settle(i, entry) ==
    /\ pending' = [j \in 1..Len(pending) |->
                       IF j = i THEN [entry EXCEPT !.settled = TRUE]
                       ELSE [pending[j] EXCEPT !.overlapped = TRUE]]
    /\ microtasks' = Append(microtasks, entry.req)
    /\ serial' = Serially(entry.req)

\* a data event of request i; the chunk that takes data.length over the cap
\* rejects the promise
Chunk(i) ==
    /\ running
    /\ Idle
    /\ i \in 1..Len(pending)
    /\ pending[i].left # <<>>
    /\ IF Received(pending[i]).req.text[1] > MaxBodyLength /\ ~pending[i].settled
       THEN Settle(i, Received(pending[i]))
       ELSE /\ pending' = [pending EXCEPT ![i] = Received(pending[i])]
            /\ UNCHANGED <<microtasks, serial>>
    /\ UNCHANGED <<running, authToken, tokenFile, db, file, uuids, resp, prevAdd,
                   deletedOk, flushing>>
    /\ UNCHANGED clientVars

\* the pending requests without the i-th
Without(i) == [j \in 1..(Len(pending) - 1) |-> IF j < i THEN pending[j] ELSE pending[j + 1]]

\* the end event of request i: the promise is resolved with JSON.parse(data)
\* or rejected, unless a data event has rejected it already
End(i) ==
    /\ running
    /\ Idle
    /\ i \in 1..Len(pending)
    /\ pending[i].left = <<>>
    /\ IF pending[i].settled
       THEN /\ pending' = Without(i)
            /\ UNCHANGED <<microtasks, serial>>
       ELSE /\ pending' = [j \in 1..(Len(pending) - 1) |->
                              [Without(i)[j] EXCEPT !.overlapped = TRUE]]
            /\ microtasks' = Append(microtasks, pending[i].req)
            /\ serial' = Serially(pending[i].req)
    /\ UNCHANGED <<running, authToken, tokenFile, db, file, uuids, resp, prevAdd,
                   deletedOk, flushing>>
    /\ UNCHANGED clientVars

\* the oldest continuation runs: the rest of the try block of handleRequest,
\* the handler with its saveDb and the response, in one piece (the handlers
\* have no await of their own)
Resume ==
    /\ running
    /\ microtasks # <<>>
    /\ Commit(Head(microtasks), Route(Head(microtasks)),
              Routed(db, file, uuids, Head(microtasks), 1, OkIo,
                     Route(Head(microtasks)), getCorsOrigin(Head(microtasks).origin)))
    /\ microtasks' = Tail(microtasks)
    /\ UNCHANGED <<pending, serial, authToken, tokenFile>>
    /\ UNCHANGED clientVars

\* the chunk lengths of a body: whole, in two parts, over the cap at its
\* second part with a third that follows
ChunkInputs == {<<20>>, <<10, 10>>, <<MaxBodyLength, 1, MaxBodyLength>>}

NextChunks ==
    \/ \E customId \in CustomIdInputs, chunks \in ChunkInputs :
           Arrive("POST", "/add", Bearer, customId, chunks, TRUE)
    \/ Arrive("POST", "/add", Bearer, None, <<20>>, FALSE)
    \/ \E id \in {generateId(0), "sess-1"} :
           Arrive("DELETE", "/memories/" \o id, Bearer, None, <<>>, TRUE)
    \/ \E h \in {None, Some("Bearer " \o TokenB)} :
           Arrive("POST", "/add", h, None, <<10, 10>>, TRUE)
    \/ \E i \in 1..MaxRecords : Chunk(i)
    \/ \E i \in 1..MaxRecords : End(i)
    \/ Resume

SpecChunks == Init /\ [][NextChunks]_vars

(***************************************************************************)
(* SpecAuth: requests of every method, on every kind of path, with every   *)
(* kind of Authorization header and Origin, and the restarts after a       *)
(* crash.                                                                  *)
(***************************************************************************)
Methods == {"GET", "POST", "DELETE", "OPTIONS"}

Paths == {"/health", "/add", "/v1/memories/list", "/memories/uuid-1", "/nope"}

Origins ==
    {None, Some("http://localhost:3000"), Some("https://evil.example"),
     Some("http://127.0.0.1:8080"), Some("http://localhost.evil.example"),
     Some("null")}

NextAuth ==
    \/ \E method \in Methods, pathname \in Paths, h \in AuthHeaders(authToken) :
           Serve(method, pathname, h, None, AnyBody, 1, OkIo)
    \/ \E h \in AuthHeaders(authToken) : Serve("POST", "/add", h, None, EmptyBody, 1, OkIo)
    \/ \E pathname \in Paths, origin \in Origins :
           Serve("OPTIONS", pathname, None, origin, AnyBody, 1, OkIo)
    \/ \E origin \in {None, Some("http://localhost:3000"), Some("https://evil.example")},
          h \in {None, Some("Bearer " \o authToken)} :
           Serve("POST", "/v1/memories/list", h, origin, AnyBody, 1, OkIo)
    \/ \E fresh \in GeneratedTokens : Start(fresh)

SpecAuth == Init /\ [][NextAuth]_vars

\* requests of browser pages, which carry an Origin header
NextCors ==
    \/ \E method \in Methods, pathname \in {"/health", "/add", "/nope"},
          origin \in Origins, h \in {None, Some("Bearer " \o authToken)} :
           Serve(method, pathname, h, origin, AnyBody, 1, OkIo)
    \/ \E origin \in Origins, text \in {NoText, BadText} :
           ServeText("POST", "/add", Bearer, origin, text, EmptyBody, 1, OkIo)

SpecCors == Init /\ [][NextCors]_vars

(***************************************************************************)
(* The plugin's client (lib/security.js 18-136, lib/local-client.js        *)
(* 29-144, the client factory).                                            *)
(***************************************************************************)
ALLOWED_API_HOSTS ==
    {"api.supermemory.ai", "console.supermemory.ai", "mcp.supermemory.ai",
     "localhost", "127.0.0.1"}

\* validateApiUrl once new URL(urlString) has returned or thrown
ValidateParsed(url) ==
    IF ~url.ok THEN [valid |-> FALSE, reason |-> "Invalid URL"]
    ELSE IF url.protocol # "https:" /\ url.hostname # "localhost"
    THEN [valid |-> FALSE, reason |-> "URL must use HTTPS"]
    ELSE IF toLowerCase(url.hostname) \notin ALLOWED_API_HOSTS
    THEN [valid |-> FALSE, reason |-> "Host is not in the allowed list"]
    ELSE [valid |-> TRUE, reason |-> ""]

validateApiUrl(urlString) ==
    IF urlString = "" THEN [valid |-> FALSE, reason |-> "URL is empty or not a string"]
    ELSE ValidateParsed(ParseUrl(urlString))

getSecureApiUrl(e) ==
    IF e.SUPERMEMORY_API_URL = None \/ e.SUPERMEMORY_API_URL = Some("")
    THEN "https://api.supermemory.ai"
    ELSE IF ~validateApiUrl(e.SUPERMEMORY_API_URL[1]).valid
    THEN "https://api.supermemory.ai"
    ELSE e.SUPERMEMORY_API_URL[1]

\* loadAuthToken of local-client.js, on the token file of the local backend
loadAuthToken(tf) ==
    IF tf.exists /\ Len(Trim(tf.text)) >= 32 THEN Some(Trim(tf.text)) ELSE None

isLocalBackend(e) ==
    \/ Includes(OrElse(e.SUPERMEMORY_API_URL, ""), "localhost")
    \/ Includes(OrElse(e.SUPERMEMORY_API_URL, ""), "127.0.0.1")
    \/ e.SUPERMEMORY_LOCAL = Some("true")

\* new LocalMemoryClient(containerTag)
LocalMemoryClient(e, tf, containerTag) ==
    [kind |-> "local",
     baseUrl |-> getSecureApiUrl(e),
     containerTag |-> OrElse(containerTag, "claudecode_default"),
     authToken |-> loadAuthToken(tf)]

\* the factory; of the cloud client only its kind is kept
createClient(e, tf, containerTag) ==
    IF isLocalBackend(e) THEN LocalMemoryClient(e, tf, containerTag)
    ELSE [kind |-> "cloud"]

\* what LocalMemoryClient.request hands to fetch(): the url with the host it
\* names, the method, the Authorization header and the payload it serialises
Fetch(c, method, path, payload, url) ==
    [url |-> c.baseUrl \o path,
     host |-> url.hostname,
     method |-> method,
     authorization |-> IF c.authToken = None THEN None
                       ELSE Some("Bearer " \o c.authToken[1]),
     payload |-> payload]

\* SUPERMEMORY_API_URL as users set it; the first is the README's
ApiUrlInputs ==
    {None,
     Some("http://127.0.0.1:19877"),
     Some("http://localhost:19877"),
     Some("https://127.0.0.1:19877"),
     Some("https://api.supermemory.ai"),
     Some("https://localhost.evil.example"),
     Some("localhost:19877")}

LocalInputs == {None, Some("true"), Some("1")}

\* the method and path of addMemory, search, getProfile, listMemories and
\* deleteMemory
ClientCalls ==
    {<<"POST", "/add">>, <<"POST", "/search/memories">>, <<"POST", "/profile">>,
     <<"POST", "/memories/list">>, <<"DELETE", "/memories/uuid-1">>}

\* the payload: a memory's content, or none
Payloads == {None, Some("alpha beta")}

CreateClient(containerTag) ==
    /\ client = None
    /\ client' = Some(createClient(env, tokenFile, containerTag))
    /\ UNCHANGED <<env, sent>>
    /\ UNCHANGED pluginVars
    /\ UNCHANGED serverVars

\* LocalMemoryClient.request up to its fetch(); `ok` is res.ok
ClientRequest(call, payload, ok) ==
    /\ client # None
    /\ client[1].kind = "local"
    /\ sent' = Some([threw |-> ~ok] @@
                     Fetch(client[1], call[1], call[2], payload,
                           ParseUrl(client[1].baseUrl \o call[2])))
    /\ UNCHANGED <<env, client>>
    /\ UNCHANGED pluginVars
    /\ UNCHANGED serverVars

\* the plugin's process ends; the next hook starts another
ClientExit ==
    /\ client # None
    /\ client' = None
    /\ sent' = None
    /\ UNCHANGED env
    /\ UNCHANGED pluginVars
    /\ UNCHANGED serverVars

InitEnv ==
    /\ InitServer(TokenA)
    /\ env \in [SUPERMEMORY_API_URL : ApiUrlInputs, SUPERMEMORY_LOCAL : LocalInputs]
    /\ client = None
    /\ sent = None
    /\ InitPlugin

NextClient ==
    \/ \E containerTag \in TagInputs : CreateClient(containerTag)
    \/ \E call \in ClientCalls, payload \in Payloads, ok \in BOOLEAN :
           ClientRequest(call, payload, ok)
    \/ ClientExit

SpecClient == InitEnv /\ [][NextClient]_vars

(***************************************************************************)
(* SpecToken: the runs of the server from its first, and the clients that  *)
(* the hooks create meanwhile.  Nothing but the server writes the token    *)
(* file.                                                                   *)
(***************************************************************************)
\* before the first run: no token file, no snapshot
InitFirstRun ==
    /\ running = FALSE
    /\ authToken = ""
    /\ tokenFile = [exists |-> FALSE, text |-> ""]
    /\ db = EmptyDb
    /\ file = NoSnapshot
    /\ uuids = 0
    /\ resp = NoResponse
    /\ prevAdd = None
    /\ deletedOk = {}
    /\ flushing = None
    /\ InitLoop
    /\ env \in [SUPERMEMORY_API_URL : ApiUrlInputs, SUPERMEMORY_LOCAL : LocalInputs]
    /\ client = None
    /\ sent = None
    /\ InitPlugin

NextToken ==
    \/ \E fresh \in GeneratedTokens : Start(fresh)
    \/ \E fresh \in GeneratedTokens : StartUnsaved(fresh)
    \/ Shutdown
    \/ CreateClient(None)
    \/ ClientExit

SpecToken == InitFirstRun /\ [][NextToken]_vars

\* the hosts of the loopback interface
Loopback == {"localhost", "127.0.0.1"}

\* C2: when the local backend is selected, every request of the
\* LocalMemoryClient that createClient returned, with its payload and the
\* bearer token of the token file, goes to a loopback host.
C2_LocalClientStaysLocal ==
    sent # None /\ isLocalBackend(env) => sent[1].host \in Loopback

(***************************************************************************)
(* Properties of authentication.                                           *)
(***************************************************************************)
\* the header is "Bearer <token>" with the stored token, the scheme in any
\* case
ValidBearer(h, token) ==
    /\ h # None
    /\ Len(h[1]) = 7 + Len(token)
    /\ toLowerCase(SubSeq(h[1], 1, 6)) = "bearer"
    /\ SubSeq(h[1], 7, 7) = " "
    /\ SubSeq(h[1], 8, Len(h[1])) = token

\* the last request, not a preflight, named a path other than the health
\* path and had no valid bearer token
Unauthenticated ==
    /\ resp.req # None
    /\ resp.req[1].method # "OPTIONS"
    /\ ~isHealthCheck(resp.req[1].pathname)
    /\ ~ValidBearer(resp.req[1].authorization, authToken)

\* C1: a request to a path other than the health path, whatever its method
\* (the CORS preflight apart) and body, whose Authorization header is
\* absent, is not "Bearer <token>" or carries another token than the stored
\* one, of any length and any characters, is answered 401.
C1_UnauthenticatedGets401 == Unauthenticated => resp.status = 401

\* the last request carried an Origin header whose URL has a host name
\* other than localhost and 127.0.0.1, or has no URL at all
ForeignOrigin ==
    /\ resp.req # None
    /\ resp.req[1].origin \notin {None, Some("")}
    /\ ~(/\ ParseUrl(resp.req[1].origin[1]).ok
         /\ ParseUrl(resp.req[1].origin[1]).hostname \in {"localhost", "127.0.0.1"})

\* C14: a request whose Origin header names a host other than localhost and
\* 127.0.0.1 is answered 403, whatever its method and even with the valid
\* bearer token, and changes neither the store nor the snapshot file.
C14_ForeignOriginGets403 == ForeignOrigin => resp.status = 403 /\ ~resp.changed

\* C15: every response (preflight, 200, 400, 401, 404, 500) carries
\* Access-Control-Allow-Origin exactly when the request has an Origin header
\* whose host name is localhost or 127.0.0.1, and its value is then that
\* origin; every other response carries no CORS header.
C15_CorsOnlyForLoopback ==
    resp.status # 0
        => resp.cors = IF resp.req[1].origin = None \/ ForeignOrigin THEN None
                       ELSE resp.req[1].origin

\* an error response, not a preflight, that echoes a loopback origin
C15_Witness ==
    /\ resp.status \in {401, 404, 500}
    /\ resp.req[1].method # "OPTIONS"
    /\ resp.req[1].origin # None
    /\ ~ForeignOrigin
    /\ resp.cors = resp.req[1].origin

(***************************************************************************)
(* Properties of the store.                                                *)
(***************************************************************************)
\* the ids a list or search response returns
ReturnedIds ==
    IF resp.status # 200 THEN {}
    ELSE IF resp.route = "list"
    THEN {resp.body.memories[i].id : i \in 1..Len(resp.body.memories)}
    ELSE IF resp.route = "search"
    THEN {resp.body.results[i].id : i \in 1..Len(resp.body.results)}
    ELSE {}

\* C3: once DELETE /memories/:id has answered success for an id, no later
\* list or search response, on any tag, returns a record with that id.
C3_DeletedNeverReturned == ReturnedIds \cap deletedOk = {}

\* C4: no two records of one container tag have the same id, so an add never
\* creates a record with the id of an existing record of its tag, live or
\* soft-deleted.
C4_IdsUniquePerTag ==
    \A k \in 1..Len(db.memories) :
        \A i, j \in 1..Len(db.memories[k].list) :
            i # j => db.memories[k].list[i].id # db.memories[k].list[j].id

\* the last response answers a successful add or delete
MutationSucceeded == resp.route \in {"add", "delete"} /\ resp.status = 200

\* C5: after every add or delete that answers success, the snapshot file is
\* the serialisation of the whole in-memory store, every tag and every
\* record, soft-deleted ones included, and loading it gives that store.
C5_SnapshotIsWholeStore ==
    MutationSucceeded =>
        /\ file.exists
        /\ file.lines = JSONstringify(db)
        /\ loadDb(file) = db

\* C5 happens: a delete succeeds on a store of two tags that is left with a
\* live and a soft-deleted record
C5_Witness ==
    /\ MutationSucceeded
    /\ resp.route = "delete"
    /\ Len(db.memories) = 2
    /\ \E i, j \in 1..Len(AllRecords(db)) :
           AllRecords(db)[i].deleted /\ ~AllRecords(db)[j].deleted

\* every record of store `old` is in store `new`, under the same tag at the
\* same position, with the same id, content, title, metadata and createdAt
Grown(old, new) ==
    \A t \in 1..Len(old.memories) :
        /\ Len(MemoriesOf(new, old.memories[t].tag)) >= Len(old.memories[t].list)
        /\ \A i \in 1..Len(old.memories[t].list) :
               LET m == old.memories[t].list[i]
                   n == MemoriesOf(new, old.memories[t].tag)[i]
               IN  /\ n.id = m.id
                   /\ n.content = m.content
                   /\ n.title = m.title
                   /\ n.metadata = m.metadata
                   /\ n.createdAt = m.createdAt

\* C17: over every operation of the running server, and every restart that
\* finds a snapshot file that parses, each tag's record sequence only grows
\* by appending: no record is removed or moved, and the id, content, title,
\* metadata and createdAt of a record never change.
C17_AppendOnly ==
    [][(/\ running
        /\ running'
        /\ resp' = NoResponse => file.exists /\ JSONparse(file.lines).ok)
           => Grown(db, db')]_vars

\* C18: every record of the store has updatedAt >= createdAt, whatever the
\* adds and deletes were and whatever the wall clock returned at each.
C18_UpdatedNotBeforeCreated ==
    \A i \in 1..Len(AllRecords(db)) :
        AllRecords(db)[i].updatedAt >= AllRecords(db)[i].createdAt

\* C6: when the process stops during a flush, the snapshot file is the whole
\* previous snapshot or the whole new one, and the restart after it loads
\* the store of one of the two.
C6_CrashLeavesWholeSnapshot ==
    flushing # None =>
        /\ file = flushing[1].old \/ file = [exists |-> TRUE, lines |-> flushing[1].new]
        /\ running =>
               db \in {loadDb(flushing[1].old),
                       loadDb([exists |-> TRUE, lines |-> flushing[1].new])}

\* the list request that follows a successful add, on the tag of that add
ListAfterAdd ==
    /\ resp.route = "list"
    /\ resp.status = 200
    /\ resp.after # None
    /\ ListTag(resp.req[1].body.containerTags) = resp.after[1].tag

\* C9: a list that follows a successful add on the same tag returns, as its
\* first (newest) element, a record with the id the add returned and the
\* content that was sent, and the store holds that record as not deleted.
C9_AddThenList ==
    ListAfterAdd =>
        /\ Len(resp.body.memories) > 0
        /\ resp.body.memories[1].id = resp.after[1].id
        /\ resp.body.memories[1].content = resp.after[1].content
        /\ Last(MemoriesOf(db, resp.after[1].tag)).id = resp.after[1].id
        /\ Last(MemoriesOf(db, resp.after[1].tag)).content = resp.after[1].content
        /\ ~Last(MemoriesOf(db, resp.after[1].tag)).deleted

\* C9 happens: the list returns the added record ahead of an older one with
\* another id
C9_Witness ==
    /\ ListAfterAdd
    /\ Len(resp.body.memories) >= 2
    /\ resp.body.memories[2].id # resp.after[1].id

\* the limit the last list request asked for
AskedListLimit ==
    IF resp.req[1].body.limit = None THEN 20 ELSE resp.req[1].body.limit[1]

\* C16: a list with limit >= 0 (20 when the body gives none) on a tag with n
\* records that are not deleted returns exactly the min(limit, n) most
\* recently appended of them, newest first; in particular at most `limit`
\* records, also for limit 0.
C16_ListNewestWithinLimit ==
    (/\ resp.route = "list"
     /\ resp.status = 200
     /\ AskedListLimit >= 0)
        => LET live == Live(MemoriesOf(db, ListTag(resp.req[1].body.containerTags)))
               k == Min(AskedListLimit, Len(live))
           IN  /\ Len(resp.body.memories) = k
               /\ \A i \in 1..k :
                      resp.body.memories[i] = Listed(live[Len(live) + 1 - i])

\* C12: an authenticated POST to a body-reading route (/add,
\* /search/memories, /memories/list) whose body is not valid JSON is answered
\* with status 400 and leaves the store and the snapshot file unchanged.
C12_InvalidJsonGets400 ==
    (/\ resp.route \in {"add", "search", "list"}
     /\ resp.status # 401
     /\ resp.req[1].text[1] \in 1..MaxBodyLength
     /\ ~resp.req[1].text[2])
        => resp.status = 400 /\ ~resp.changed

\* C13: a body-reading request whose body exceeds the size cap is answered
\* with status 413 or 400, never 500, and leaves the store and the snapshot
\* file unchanged.
C13_OversizeBodyNot500 ==
    (/\ resp.route \in {"add", "search", "list"}
     /\ resp.status # 401
     /\ resp.req[1].text[1] > MaxBodyLength)
        => resp.status \in {400, 413} /\ ~resp.changed

\* C11: an authenticated DELETE /memories/:id whose id no record of the store
\* holds, in any tag, is answered 404 with the body {error: "Memory not
\* found"} and leaves the store and the snapshot file as they were.
C11_AbsentDeleteNotFound ==
    (resp.route = "delete" /\ resp.absent /\ resp.status # 401)
        => /\ resp.status = 404
           /\ resp.body = ErrorBody("Memory not found")
           /\ ~resp.changed

\* the 404 was given by a store that holds records under other ids
C11_Witness ==
    /\ resp.route = "delete"
    /\ resp.absent
    /\ resp.status = 404
    /\ \E i \in 1..Len(AllRecords(db)) : ~AllRecords(db)[i].deleted

\* C10: a DELETE of an id whose records are all soft-deleted already answers
\* 404 "Memory not found" and changes neither the store (updatedAt) nor the
\* snapshot file.
C10_SecondDeleteNotFound ==
    resp.route = "delete" /\ resp.already =>
        /\ resp.status = 404
        /\ resp.body = ErrorBody("Memory not found")
        /\ ~resp.changed

(***************************************************************************)
(* Properties of search.                                                   *)
(***************************************************************************)
\* the last response answers a search with results
SearchAnswered == resp.route = "search" /\ resp.status = 200

\* the limit the search asked for: 10 when the body has none
AskedLimit == IF resp.req[1].body.limit = None THEN 10 ELSE resp.req[1].body.limit[1]

\* C7: whatever limit a search sends (none, 0, negative, above 50), it gets
\* at most min(limit, 50) results (none when that is not positive) and never
\* more than 50.
C7_ResultsWithinLimit ==
    SearchAnswered =>
        /\ Len(resp.body.results) <= Max(0, Min(AskedLimit, 50))
        /\ Len(resp.body.results) <= 50

\* the record of the searched tag a result shows
ResultRecord(r) ==
    MemoriesOf(db, OrElse(resp.req[1].body.containerTag, "default"))
        [FindId(MemoriesOf(db, OrElse(resp.req[1].body.containerTag, "default")), r.id)]

\* the containment score of the record a result shows, for the query sent
ResultScore(r) ==
    calculateScore(Tokens(resp.req[1].body.q[1]), Tokens(ResultRecord(r).content))

ScenarioSearched ==
    /\ SearchAnswered
    /\ db = AddAll(ScenarioContents)
    /\ resp.req[1].body.q = Some("alpha gamma")
    /\ resp.req[1].body.limit = Some(10)

\* C20 as stated: with the records 'alpha beta', 'beta gamma' and
\* 'alpha gamma delta' added in this order to one tag,
\* search(tag, 'alpha gamma', 10) returns exactly 2 results.
C20_ScenarioReturnsTwo == ScenarioSearched => Len(resp.body.results) = 2

\* C20, amended: that search returns exactly 3 results: the third record
\* first with similarity 1, then the first and the second record, in the
\* order of their adds, each with similarity 1/2.
C20_ScenarioReturnsThree ==
    ScenarioSearched =>
        /\ Len(resp.body.results) = 3
        /\ resp.body.results[1].id = generateId(2)
        /\ resp.body.results[1].similarity = <<1, 1>>
        /\ resp.body.results[2].id = generateId(0)
        /\ resp.body.results[2].similarity = <<1, 2>>
        /\ resp.body.results[3].id = generateId(1)
        /\ resp.body.results[3].similarity = <<1, 2>>

\* the scenario was run and its first result is the third record
C20_Witness ==
    /\ ScenarioSearched
    /\ Len(resp.body.results) > 0
    /\ resp.body.results[1].content = "alpha gamma delta"

\* C19: whatever the interleaving of the arrivals, chunks and ends of
\* requests in flight together, once every queued continuation has run the
\* store and the snapshot file are those of handling the requests whole, one
\* at a time, in the order in which their bodies were complete; ids are
\* handed out in that order too.
C19_SerialInCompletionOrder ==
    microtasks = <<>> =>
        /\ db = serial.db
        /\ file = serial.file
        /\ uuids = serial.uuids

\* an add was applied while another request, in flight with it, had received
\* a part of its body
C19_Witness ==
    /\ microtasks = <<>>
    /\ resp.route = "add"
    /\ resp.status = 200
    /\ db = serial.db
    /\ \E i \in 1..Len(pending) :
           /\ pending[i].overlapped
           /\ pending[i].req.text[1] > 0
           /\ pending[i].left # <<>>

C22_TokenStable ==
    [][/\ (~running /\ running' /\ authToken # "") => authToken' = authToken
       /\ (/\ running'
           /\ client' # None
           /\ client'[1].kind = "local"
           /\ client'[1].authToken # None)
              => client'[1].authToken = Some(authToken')]_vars

\* main() has just run on a snapshot file that is there and does not parse
StartedOnBadSnapshot ==
    /\ resp = NoResponse
    /\ file.exists
    /\ ~JSONparse(file.lines).ok

C24_EveryRequestAnswered ==
    resp.req # None => resp.status # 0 /\ running

\* C25: once the body of a request has exceeded the cap the server stops
\* accumulating it: the data buffered for a request is never longer than the
\* cap plus one chunk, whatever the client goes on sending.
C25_BufferWithinCapPlusChunk ==
    \A i \in 1..Len(pending) :
        \E c \in ChunkInputs, k \in 1..3 :
            k <= Len(c) /\ pending[i].req.text[1] <= MaxBodyLength + c[k]

\* C26: for a request that is neither a health check nor a preflight, no
\* body is read and no handler runs unless the auth check has passed: the
\* requests whose body is being read, and those whose continuation is
\* queued, carry the valid token, and a request without it leaves the store
\* and the snapshot file as they were, whatever its path, method and body.
C26_NothingBeforeAuth ==
    /\ \A i \in 1..Len(pending) : ValidBearer(pending[i].req.authorization, authToken)
    /\ \A i \in 1..Len(microtasks) : ValidBearer(microtasks[i].authorization, authToken)
    /\ Unauthenticated => ~resp.changed

\* a POST /add without the token was turned away while the store held a
\* record and another request was sending its body
C26_Witness ==
    /\ Unauthenticated
    /\ resp.req[1].method = "POST"
    /\ resp.req[1].pathname = "/add"
    /\ resp.status = 401
    /\ Len(AllRecords(db)) > 0
    /\ Len(pending) > 0

\* where the record a result shows stands in the array of the searched tag
ResultPosition(r) ==
    FindId(MemoriesOf(db, OrElse(resp.req[1].body.containerTag, "default")), r.id)

\* the results of a search are in order of descending calculateScore, those
\* of equal calculateScore in the order of the array
ResultsSortedStable ==
    SearchAnswered =>
        \A i, j \in 1..Len(resp.body.results) :
            i < j =>
                /\ ~Greater(ResultScore(resp.body.results[j]),
                            ResultScore(resp.body.results[i]))
                /\ ResultScore(resp.body.results[j]) = ResultScore(resp.body.results[i])
                       => ResultPosition(resp.body.results[i])
                              < ResultPosition(resp.body.results[j])

\* the tokens of a sequence, each once
Distinct(tokens) == {tokens[i] : i \in 1..Len(tokens)}

\* the containment ratio: the distinct tokens of q that occur in d, out of the
\* distinct tokens of q
ContainmentRatio(q, d) ==
    IF Len(q) = 0 \/ Len(d) = 0 THEN <<0, 1>>
    ELSE Ratio(Cardinality(Distinct(q) \cap Distinct(d)), Cardinality(Distinct(q)))

\* the containment ratio of the record a result shows
ResultRatio(r) ==
    ContainmentRatio(Tokens(resp.req[1].body.q[1]), Tokens(ResultRecord(r).content))

\* C27: the results of a search are in order of descending containment
\* score, and records of equal score are in the order of their insertion; in
\* the scenario of 'alpha beta', 'beta gamma', 'alpha gamma delta' searched
\* for 'alpha gamma' the third record comes first.
C27_DescendingStable ==
    /\ SearchAnswered =>
           \A i, j \in 1..Len(resp.body.results) :
               i < j =>
                   /\ ~Greater(ResultRatio(resp.body.results[j]),
                               ResultRatio(resp.body.results[i]))
                   /\ ResultRatio(resp.body.results[j]) = ResultRatio(resp.body.results[i])
                          => ResultPosition(resp.body.results[i])
                                 < ResultPosition(resp.body.results[j])
    /\ ScenarioSearched => resp.body.results[1].id = generateId(2)

\* C28: for all token sequences q and d the score of q against d is the
\* number of distinct tokens of q that occur in d over the number of distinct
\* tokens of q, lies between 0 and 1, is 0 when q or d is empty, and stays
\* the same when a token of the query is repeated.
C28_ScoreIsContainmentRatio ==
    resp.route = "score" =>
        /\ resp.body.score = ContainmentRatio(resp.req[1][1], resp.req[1][2])
        /\ ~Greater(<<0, 1>>, resp.body.score)
        /\ ~Greater(resp.body.score, <<1, 1>>)
        /\ (resp.req[1][1] = <<>> \/ resp.req[1][2] = <<>>) => resp.body.score = <<0, 1>>
        /\ \A t \in Distinct(resp.req[1][1]) :
               calculateScore(Append(resp.req[1][1], t), resp.req[1][2]) = resp.body.score

ProfileAnswered == resp.route = "profile" /\ resp.status = 200

\* the array of the tag the profile was asked of
ProfiledMemories == MemoriesOf(db, resp.req[1].body.containerTag[1])

\* the places of an array that hold a record not deleted with fewer than 50
\* records not deleted after it
RecentPlaces(memories) ==
    {i \in 1..Len(memories) :
        /\ ~memories[i].deleted
        /\ Cardinality({j \in (i + 1)..Len(memories) : ~memories[j].deleted}) < 50}

\* the phrases the patterns of a family capture in the records at places P
PhrasesAt(memories, P, family) ==
    UNION {{Trim(matchTable[memories[i].content][family][p][k]) :
               k \in 1..Len(matchTable[memories[i].content][family][p])} :
              i \in P, p \in 1..2}

NoDuplicate(a) == \A i, j \in 1..Len(a) : i # j => a[i] # a[j]

\* a store that holds the records at places P of the profiled tag and
\* nothing else
StoreOfPlaces(P) ==
    [memories |->
        <<[tag |-> resp.req[1].body.containerTag[1],
           list |-> [i \in 1..Cardinality(P) |-> ProfiledMemories[Place(P, i)]]]>>]

\* C29: a profile is drawn from the 50 most recently appended records of the
\* tag that are not deleted and from nothing else: each of its two lists has
\* at most 10 entries, no phrase twice, only phrases captured in those
\* records, and it is the profile of a store that holds those records alone.
C29_ProfileFromRecentLive ==
    ProfileAnswered =>
        /\ Len(resp.body.profile.static) <= 10
        /\ Len(resp.body.profile.dynamic) <= 10
        /\ NoDuplicate(resp.body.profile.static)
        /\ NoDuplicate(resp.body.profile.dynamic)
        /\ \A k \in 1..Len(resp.body.profile.static) :
               resp.body.profile.static[k]
                   \in PhrasesAt(ProfiledMemories, RecentPlaces(ProfiledMemories), "static")
        /\ \A k \in 1..Len(resp.body.profile.dynamic) :
               resp.body.profile.dynamic[k]
                   \in PhrasesAt(ProfiledMemories, RecentPlaces(ProfiledMemories), "dynamic")
        /\ resp.body.profile
               = generateProfile(StoreOfPlaces(RecentPlaces(ProfiledMemories)),
                                 resp.req[1].body.containerTag[1])

\* a profile of 10 static phrases was drawn from a tag of more than 50 live
\* records and a deleted one, next to another tag that holds a phrase too
C29_Witness ==
    /\ ProfileAnswered
    /\ Len(resp.body.profile.static) = 10
    /\ Len(Live(ProfiledMemories)) > 50
    /\ Len(Live(ProfiledMemories)) < Len(ProfiledMemories)
    /\ \E t \in 1..Len(db.memories) :
           /\ db.memories[t].tag # resp.req[1].body.containerTag[1]
           /\ PhrasesAt(db.memories[t].list, 1..Len(db.memories[t].list), "static") # {}

\* C30: an add or a delete whose snapshot flush fails is answered 500 and
\* leaves the in-memory store as it was before the request.
C30_FailedFlushLeavesStore ==
    [][(/\ resp' # resp
        /\ resp'.route \in {"add", "delete"}
        /\ resp'.status = 500) => db' = db]_vars

\* the id a DELETE request names
DeletedId(req) == LastSegment(routePath(req.pathname))

\* the record at place p was live, and is now the same record marked deleted
MarkedAt(old, new, p) ==
    /\ ~old[p].deleted
    /\ new[p].deleted
    /\ [new[p] EXCEPT !.deleted = FALSE, !.updatedAt = old[p].updatedAt] = old[p]

\* C31: a DELETE answered 200 changes exactly one record: it marks one live
\* record of the id deleted and leaves every other record as it was, so that
\* as many deletes as there are records of the id mark all of them.
C31_DeleteMarksOneLive ==
    [][(/\ resp' # resp
        /\ resp'.route = "delete"
        /\ resp'.status = 200)
           => /\ Len(AllRecords(db')) = Len(AllRecords(db))
              /\ \E p \in 1..Len(AllRecords(db)) :
                     /\ AllRecords(db)[p].id = DeletedId(resp'.req[1])
                     /\ MarkedAt(AllRecords(db), AllRecords(db'), p)
                     /\ \A h \in 1..Len(AllRecords(db)) :
                            h # p => AllRecords(db')[h] = AllRecords(db)[h]]_vars

\* C32: whatever the snapshot file holds, the store a start reads of it is a
\* mapping from container tags to record sequences, so that main and the
\* handlers never fail on its shape.
C32_LoadedStoreIsMapping ==
    /\ HasMemories(loadDb(file))
    /\ HasMemories(db)

\* the checks that returned before the last check was made
GrantedBefore ==
    IF limiter.last[1][2] THEN SubSeq(limiter.granted, 1, Len(limiter.granted) - 1)
    ELSE limiter.granted

\* how many of the times in `times` lie in from..to
CountIn(times, from, to) ==
    Cardinality({i \in 1..Len(times) : times[i] >= from /\ times[i] <= to})

\* C33: under a clock that never goes back a check returns exactly when
\* fewer than maxCalls earlier checks that returned have a time of now -
\* windowMs or later; so no window of windowMs holds more than maxCalls checks
\* that returned, a check that threw is not recorded, and the array of the
\* limiter holds, from firstValidIndex on, the returned checks of the window,
\* compacted or not.
C33_LimiterCountsWindow ==
    limiter.last # None =>
        /\ limiter.last[1][2]
               = (CountIn(GrantedBefore, limiter.now - limiter.rl.windowMs, limiter.now)
                      < limiter.rl.maxCalls)
        /\ \A a \in 0..limiter.now :
               CountIn(limiter.granted, a, a + limiter.rl.windowMs) <= limiter.rl.maxCalls
        /\ SubSeq(limiter.rl.calls, limiter.rl.firstValidIndex + 1, Len(limiter.rl.calls))
               = SelectSeq(limiter.granted,
                           LAMBDA t : t >= limiter.now - limiter.rl.windowMs)

\* the array was compacted, and a later check threw at the limit
C33_Witness ==
    /\ limiter.last # None
    /\ ~limiter.last[1][2]
    /\ Len(limiter.granted) > 100
    /\ Len(limiter.rl.calls) < 100
    /\ CountIn(limiter.granted, limiter.now - limiter.rl.windowMs, limiter.now)
           = limiter.rl.maxCalls

\* the turn entries of the transcript
TurnEntries == SelectSeq(EntriesOf(hook.lines), IsTurn)

\* the place in TurnEntries of the entry the tracker file names, 0 for none
TrackedPlace ==
    IF hook.txt = None THEN 0 ELSE FirstWithUuid(TurnEntries, hook.txt[1])

\* the runs that returned a text made of the entry with this uuid
RunsOf(uuid) ==
    {r \in 1..Len(hook.runs) : \E i \in 1..Len(hook.runs[r]) : hook.runs[r][i] = uuid}

\* C34 as stated: every user or assistant entry up to the last captured one
\* is in the text that exactly one run returned, and none after it is in a
\* text yet.
C34_EveryEntryInOneText ==
    \A p \in 1..Len(TurnEntries) :
        Cardinality({r \in RunsOf(TurnEntries[p].uuid) : formatEntry(TurnEntries[p]) # ""})
            = IF p <= TrackedPlace THEN 1 ELSE 0

\* C34, amended: every user or assistant entry up to the last captured one
\* was among the new entries of exactly one run that returned a text, and no
\* entry after it of any; the text holds the entry unless formatEntry makes
\* nothing of it (a message of thinking blocks only, say).
C34_EveryEntryInOneRun ==
    \A p \in 1..Len(TurnEntries) :
        Cardinality(RunsOf(TurnEntries[p].uuid)) = IF p <= TrackedPlace THEN 1 ELSE 0

\* two runs returned a text; the first run of all returned none, its entry
\* being too short, and the entry went into the text of a later run
C34_Witness ==
    /\ Len(hook.runs) = 2
    /\ Len(hook.runs[1]) = 2
    /\ formatEntry(TurnEntries[1]) # ""
    /\ Len(TurnText(<<TurnEntries[1]>>)) < 100
    /\ TrackedPlace = Len(TurnEntries)

\* C35: a run of formatNewEntriesAsync returns the entries that the legacy
\* formatNewEntries returns for the same transcript and the same last
\* captured uuid.
C35_AsyncAsLegacy ==
    [][(hook' # hook /\ hook'.last = "async")
          => hook'.async = formatNewEntries(hook.lines, hook.json.uuid).entries]_vars

\* C36: an entry that went into a text is behind the tracker only when
\* addMemory stored the text: a run whose addMemory failed leaves its entries
\* to a later run.
C36_TrackedEntriesStored ==
    \A p \in 1..Len(TurnEntries) :
        (p <= TrackedPlace /\ formatEntry(TurnEntries[p]) # "")
            => TurnEntries[p].uuid \in hook.stored

\* the flow has rejected
FlowRejected == flow.settled # None /\ flow.settled[1][1] = "reject"

\* C37: a key is in the credentials file only by a flow whose promise
\* resolves with that key: a flow that has rejected has written no key, and
\* a flow that has resolved has written no other key than the one it resolved
\* with.
C37_OnlyResolvedKeySaved ==
    /\ FlowRejected => flow.written = {}
    /\ \A w \in flow.written : flow.settled = Some(<<"resolve", w.apiKey>>)

\* the promise settles by the timeout at the latest
SettledByTimeout ==
    /\ flow.settled # None => flow.settledAt <= AUTH_TIMEOUT
    /\ flow.now > AUTH_TIMEOUT => flow.settled # None

\* a settled flow has closed its server, unless the server never listened
SettledIsClosed == flow.settled # None => flow.server \in {"closed", "failed"}

\* C38: the promise settles no later than AUTH_TIMEOUT after the call; once
\* it is settled the server is closed, and no request that comes later saves
\* credentials.
C38_SettledFlowIsFinal ==
    /\ SettledByTimeout
    /\ SettledIsClosed
    /\ \A w \in flow.written : ~w.late

\* the key there is for getApiKey to return, by its order of precedence
KeyThereIs ==
    IF Truthy(flow.settings) THEN flow.settings
    ELSE IF Truthy(flow.envKey) THEN flow.envKey
    ELSE IF Truthy(flow.saved) THEN flow.saved
    ELSE None

KeyByPrecedence ==
    IF KeyThereIs = None THEN [throws |-> "NO_API_KEY"] ELSE [returns |-> KeyThereIs[1]]

\* the async getApiKey, awaited, gives the key by the order of precedence
AwaitedKeyByPrecedence == flow.awaited # None => flow.awaited[1] = KeyByPrecedence

\* C39: getApiKey returns the apiKey of the settings if set, else the one of
\* the environment, else the one saveCredentials stored, and throws
\* NO_API_KEY only when there is none; the key the SessionStart hook gives to
\* its client after a saveCredentials(k), with no key in the settings nor in
\* the environment, is k.
C39_KeyByPrecedence ==
    /\ flow.result # None => flow.result[1] = KeyByPrecedence
    /\ AwaitedKeyByPrecedence
    /\ (flow.clientKey # None /\ Truthy(flow.saved)
            /\ ~Truthy(flow.settings) /\ ~Truthy(flow.envKey))
           => flow.clientKey = Some([value |-> flow.saved[1]])

====
